---- MODULE Spec2Model ----
(***************************************************************************)
(* Model of the label-text interpreter of the grocery expiry tracker:      *)
(* extractDates, parseDate, isLikelyExpiryDate, extractItemNames,          *)
(* processOCRText and validateExtractedItem of src/src/App.jsx.            *)
(*                                                                         *)
(* A text is a sequence of one-character strings.  A calendar date is a    *)
(* day number (days since 0000-03-01 of the proleptic Gregorian calendar), *)
(* converted from and to year/month/day by the usual civil-date            *)
(* arithmetic.  Confidences are kept in hundredths (0.8 is 80).            *)
(***************************************************************************)
EXTENDS Integers, Sequences, FiniteSets, TLC

VARIABLES
    pc,          \* the call to come ("ocr", "validate", "parse") or the last one made ("done",
                 \* "validated", "again", "parsed", "resolved")
    env,         \* the host: [now: the clock, lenient: the engine's Date parser, west: the time zone]
    text,        \* the argument of processOCRText: [type, value]
    lastIndex,   \* lastIndex of each of the four global DATE_PATTERNS
    ocr,         \* what processOCRText did: the list it returned and the lists it built
    item,        \* the argument of validateExtractedItem
    validated,   \* validateExtractedItem(item)
    revalidated, \* validateExtractedItem of that result, as it is and after a JSON round trip
    earlier,     \* the calls of processOCRText that returned before this one: [calls, matches]
    store,       \* localStorage under STORAGE_KEYS.ITEMS: [kind, items]
    got,         \* what the last itemStorage call was given and what it returned
    app,         \* the App component with its CameraCapture: state, clock, updates to commit
    list,        \* the ItemsListPage component: its state and the updates to commit
    saved,       \* localStorage under 'groceryItems': [kind, items]
    page,        \* the CameraPage component: its state and the processImage runs in flight
    modal,       \* the EditItemModal component: its props, its state, the calls it made
    writings     \* parseDate of one date in its two writings: [slash, dash]

vars == <<pc, env, text, lastIndex, ocr, item, validated, revalidated, earlier, writings,
          store, got, app, list, saved, page, modal>>

---------------------------------------------------------------------------
(* Characters and strings                                                  *)

Chars(str) == [i \in 1..Len(str) |-> SubSeq(str, i, i)]

Digit == {"0", "1", "2", "3", "4", "5", "6", "7", "8", "9"}

DigitValue == [c \in Digit |->
    CASE c = "0" -> 0 [] c = "1" -> 1 [] c = "2" -> 2 [] c = "3" -> 3 [] c = "4" -> 4
      [] c = "5" -> 5 [] c = "6" -> 6 [] c = "7" -> 7 [] c = "8" -> 8 [] c = "9" -> 9]

DigitChar == <<"0", "1", "2", "3", "4", "5", "6", "7", "8", "9">>

UpperAlphabet == Chars("ABCDEFGHIJKLMNOPQRSTUVWXYZ")

LowerAlphabet == Chars("abcdefghijklmnopqrstuvwxyz")

UpperLetter == {UpperAlphabet[i] : i \in 1..26}

LowerLetter == {LowerAlphabet[i] : i \in 1..26}

Letter == UpperLetter \cup LowerLetter

\* \s of a JavaScript regular expression, and what String.prototype.trim removes
WhiteSpace == {" ", "\n", "\t", "\r"}

LowerOf == [c \in UpperLetter |-> LowerAlphabet[CHOOSE i \in 1..26 : UpperAlphabet[i] = c]]

UpperOf == [c \in LowerLetter |-> UpperAlphabet[CHOOSE i \in 1..26 : LowerAlphabet[i] = c]]

ToLowerChar(c) == IF c \in UpperLetter THEN LowerOf[c] ELSE c

ToUpperChar(c) == IF c \in LowerLetter THEN UpperOf[c] ELSE c

\* String.prototype.toLowerCase
ToLowerCase(s) == [i \in 1..Len(s) |-> ToLowerChar(s[i])]

\* String.prototype.substring(from, to) with 0-based, already clamped indices
Substring(s, from, to) == SubSeq(s, from + 1, to)

\* does s hold sub at 1-based position i
RECURSIVE MatchAt(_, _, _, _)
MatchAt(s, sub, i, k) ==
    IF k > Len(sub) THEN TRUE
    ELSE IF s[i + k - 1] # sub[k] THEN FALSE
    ELSE MatchAt(s, sub, i, k + 1)

StartsAt(s, sub, i) == i + Len(sub) - 1 <= Len(s) /\ MatchAt(s, sub, i, 1)

\* String.prototype.includes
Includes(s, sub) == \E i \in 1..(Len(s) - Len(sub) + 1) : MatchAt(s, sub, i, 1)

\* String.prototype.trim
RECURSIVE FirstNonSpace(_, _)
FirstNonSpace(s, i) ==
    IF i > Len(s) \/ s[i] \notin WhiteSpace THEN i ELSE FirstNonSpace(s, i + 1)

RECURSIVE LastNonSpace(_, _)
LastNonSpace(s, i) ==
    IF i < 1 \/ s[i] \notin WhiteSpace THEN i ELSE LastNonSpace(s, i - 1)

Trim(s) == SubSeq(s, FirstNonSpace(s, 1), LastNonSpace(s, Len(s)))

\* String.prototype.split on a set of separator characters, one or more in a row
\* (split(/\s+/)) or exactly one (split('\n')): a separator at either end leaves
\* an empty piece there, as in JavaScript
RECURSIVE SplitFrom(_, _, _, _, _)
SplitFrom(s, seps, runs, i, start) ==
    IF i > Len(s) THEN <<SubSeq(s, start, Len(s))>>
    ELSE IF s[i] \in seps
         THEN LET j == IF runs THEN
                          LET RECURSIVE SkipRun(_)
                              SkipRun(k) == IF k <= Len(s) /\ s[k] \in seps
                                            THEN SkipRun(k + 1) ELSE k
                          IN SkipRun(i + 1)
                       ELSE i + 1
              IN <<SubSeq(s, start, i - 1)>> \o SplitFrom(s, seps, runs, j, j)
         ELSE SplitFrom(s, seps, runs, i + 1, start)

SplitWhiteSpace(s) == SplitFrom(s, WhiteSpace, TRUE, 1, 1)

SplitLines(s) == SplitFrom(s, {"\n"}, FALSE, 1, 1)

\* String.prototype.replace(/[^a-z]/g, '') and replace(/[^a-zA-Z]/g, '')
KeepOnly(s, keep) == SelectSeq(s, LAMBDA c : c \in keep)

\* the number of characters of s from 1-based position i on that are in set, up to cap
RECURSIVE Run(_, _, _, _)
Run(s, set, i, cap) ==
    IF cap = 0 \/ i > Len(s) \/ s[i] \notin set THEN 0
    ELSE 1 + Run(s, set, i + 1, cap - 1)

\* the decimal value of the digits s[i .. i+n-1]
RECURSIVE Number(_, _, _)
Number(s, i, n) ==
    IF n = 0 THEN 0 ELSE 10 * Number(s, i, n - 1) + DigitValue[s[i + n - 1]]

---------------------------------------------------------------------------
(* Calendar dates: what Date, date-fns format and addDays compute          *)

IsLeapYear(y) == ((y % 4) = 0 /\ (y % 100) # 0) \/ (y % 400) = 0

DaysInMonth(y, m) ==
    IF m = 2 THEN (IF IsLeapYear(y) THEN 29 ELSE 28)
    ELSE IF m \in {4, 6, 9, 11} THEN 30 ELSE 31

\* the day number of year y, month m, day d; a day past the end of the month
\* runs on into the next one, as in new Date(y, m - 1, d)
DaysFromCivil(y, m, d) ==
    LET yy  == IF m <= 2 THEN y - 1 ELSE y
        era == yy \div 400
        yoe == yy - era * 400
        mp  == IF m > 2 THEN m - 3 ELSE m + 9
        doy == (153 * mp + 2) \div 5 + d - 1
    IN era * 146097 + yoe * 365 + yoe \div 4 - yoe \div 100 + doy

CivilFromDays(z) ==
    LET era == z \div 146097
        doe == z - era * 146097
        yoe == (doe - doe \div 1460 + doe \div 36524 - doe \div 146096) \div 365
        doy == doe - (365 * yoe + yoe \div 4 - yoe \div 100)
        mp  == (5 * doy + 2) \div 153
        d   == doy - (153 * mp + 2) \div 5 + 1
        m   == IF mp < 10 THEN mp + 3 ELSE mp - 9
    IN [y |-> yoe + era * 400 + (IF m <= 2 THEN 1 ELSE 0), m |-> m, d |-> d]

\* addLeadingZeros(n, width) of date-fns: at least width digits
RECURSIVE Digits(_)
Digits(n) == IF n < 10 THEN <<DigitChar[n + 1]>> ELSE Digits(n \div 10) \o <<DigitChar[(n % 10) + 1]>>

RECURSIVE Zeros(_)
Zeros(k) == IF k <= 0 THEN <<>> ELSE <<"0">> \o Zeros(k - 1)

AddLeadingZeros(n, width) == Zeros(width - Len(Digits(n))) \o Digits(n)

\* format(date, 'yyyy-MM-dd') of a valid date; date-fns writes year 0 as 0001
FormatDate(day) ==
    LET c == CivilFromDays(day)
        year == IF c.y > 0 THEN c.y ELSE 1 - c.y
    IN AddLeadingZeros(year, 4) \o <<"-">> \o AddLeadingZeros(c.m, 2) \o <<"-">> \o AddLeadingZeros(c.d, 2)

\* addDays(date, n)
AddDays(day, n) == day + n

\* null of parseDate, an Invalid Date: below the day number of every year 0..9999
NoDate == -1000000

CivilDay(y, m, d) ==
    IF m \in 1..12 /\ d \in 1..DaysInMonth(y, m) THEN DaysFromCivil(y, m, d) ELSE NoDate

\* new Date(s) for a string in the date-only form YYYY-MM-DD of ECMAScript: the day
\* whose UTC midnight it is, NoDate when the string is not of that form or names no
\* calendar day
IsoDateOnly(s) ==
    IF /\ Len(s) = 10
       /\ \A i \in {1, 2, 3, 4, 6, 7, 9, 10} : s[i] \in Digit
       /\ s[5] = "-" /\ s[8] = "-"
    THEN CivilDay(Number(s, 1, 4), Number(s, 6, 2), Number(s, 9, 2))
    ELSE NoDate

\* Array.prototype.sort with a consistent comparator: ascending and stable.
\* before holds the pairs <<i, j>> of positions for which the comparator's result
\* for (seq[i], seq[j]) is negative; an element goes after those that come before
\* it and after the equal ones that preceded it.
Sort(seq, before) ==
    LET n == Len(seq)
        Rank(i) == 1 + Cardinality({j \in 1..n :
                        \/ <<j, i>> \in before
                        \/ (<<i, j>> \notin before /\ j < i)})
    IN [p \in 1..n |-> seq[CHOOSE i \in 1..n : Rank(i) = p]]

---------------------------------------------------------------------------
(* DATE_PATTERNS and extractDates                                          *)

DateSeparator == {"/", "-"}

MonthAbbreviation == <<Chars("jan"), Chars("feb"), Chars("mar"), Chars("apr"),
                       Chars("may"), Chars("jun"), Chars("jul"), Chars("aug"),
                       Chars("sep"), Chars("oct"), Chars("nov"), Chars("dec")>>

\* (Jan|Feb|...|Dec) under the i flag at 1-based position i: the month, or 0
MonthAt(s, i) ==
    IF i < 1 \/ i + 2 > Len(s) \/ s[i] \notin Letter THEN 0
    ELSE LET w == ToLowerCase(SubSeq(s, i, i + 2))
         IN IF \E m \in 1..12 : MonthAbbreviation[m] = w
            THEN CHOOSE m \in 1..12 : MonthAbbreviation[m] = w
            ELSE 0

IsAt(s, i, set) == i >= 1 /\ i <= Len(s) /\ s[i] \in set

\* The length of the match of each pattern that starts at 1-based position i, or 0.
\* A bounded repetition followed by a character of another class matches only when
\* the whole run has an allowed length, so backtracking finds nothing else.

\* /(\d{1,2})[\/\-](\d{1,2})[\/\-](\d{2,4})/
MonthDayYearLength(s, i) ==
    LET a == Run(s, Digit, i, 3)
        b == Run(s, Digit, i + a + 1, 3)
        c == Run(s, Digit, i + a + b + 2, 4)
    IN IF /\ a \in {1, 2} /\ IsAt(s, i + a, DateSeparator)
          /\ b \in {1, 2} /\ IsAt(s, i + a + b + 1, DateSeparator)
          /\ c >= 2
       THEN a + b + c + 2 ELSE 0

\* /(\d{4})[\/\-](\d{1,2})[\/\-](\d{1,2})/
YearMonthDayLength(s, i) ==
    LET b == Run(s, Digit, i + 5, 3)
        c == Run(s, Digit, i + b + 6, 2)
    IN IF /\ Run(s, Digit, i, 4) = 4 /\ IsAt(s, i + 4, DateSeparator)
          /\ b \in {1, 2} /\ IsAt(s, i + b + 5, DateSeparator)
          /\ c >= 1
       THEN b + c + 6 ELSE 0

\* /(Jan|...|Dec)[a-z]*\s+(\d{1,2}),?\s+(\d{4})/i
MonthNameFirstLength(s, i) ==
    IF MonthAt(s, i) = 0 THEN 0
    ELSE LET l  == Run(s, Letter, i + 3, Len(s))
             w1 == Run(s, WhiteSpace, i + 3 + l, Len(s))
             d  == Run(s, Digit, i + 3 + l + w1, 3)
             k  == IF IsAt(s, i + 3 + l + w1 + d, {","}) THEN 1 ELSE 0
             w2 == Run(s, WhiteSpace, i + 3 + l + w1 + d + k, Len(s))
             y  == Run(s, Digit, i + 3 + l + w1 + d + k + w2, 4)
         IN IF w1 >= 1 /\ d \in {1, 2} /\ w2 >= 1 /\ y = 4
            THEN 3 + l + w1 + d + k + w2 + 4 ELSE 0

\* /(\d{1,2})\s+(Jan|...|Dec)[a-z]*\s+(\d{4})/i
DayMonthNameLength(s, i) ==
    LET d  == Run(s, Digit, i, 3)
        w1 == Run(s, WhiteSpace, i + d, Len(s))
        l  == Run(s, Letter, i + d + w1 + 3, Len(s))
        w2 == Run(s, WhiteSpace, i + d + w1 + 3 + l, Len(s))
        y  == Run(s, Digit, i + d + w1 + 3 + l + w2, 4)
    IN IF /\ d \in {1, 2} /\ w1 >= 1 /\ MonthAt(s, i + d + w1) # 0
          /\ w2 >= 1 /\ y = 4
       THEN d + w1 + 3 + l + w2 + 4 ELSE 0

NumPatterns == 4

DATE_PATTERNS(p, s, i) ==
    CASE p = 1 -> MonthDayYearLength(s, i)
      [] p = 2 -> YearMonthDayLength(s, i)
      [] p = 3 -> MonthNameFirstLength(s, i)
      [] p = 4 -> DayMonthNameLength(s, i)

\* The loop `while ((match = pattern.exec(text)) !== null)` of one global pattern
\* from its lastIndex (0-based) on: the matches left to right, none overlapping
\* another of the same pattern.  exec returns null, and sets lastIndex to 0, when the
\* search runs off the end of the text.
RECURSIVE ExecLoop(_, _, _)
ExecLoop(p, s, from) ==
    IF from >= Len(s) THEN <<>>
    ELSE LET n == DATE_PATTERNS(p, s, from + 1)
         IN IF n = 0 THEN ExecLoop(p, s, from + 1)
            ELSE <<[index |-> from, length |-> n]>> \o ExecLoop(p, s, from + n)

Max(a, b) == IF a >= b THEN a ELSE b

Min(a, b) == IF a <= b THEN a ELSE b

CONTEXT_RADIUS == 20

\* the object extractDates pushes for one match
DateMatch(s, m) ==
    [text    |-> Substring(s, m.index, m.index + m.length),
     context |-> Trim(Substring(s, Max(0, m.index - CONTEXT_RADIUS),
                                   Min(Len(s), m.index + m.length + CONTEXT_RADIUS))),
     index   |-> m.index]

RECURSIVE ExtractFrom(_, _, _)
ExtractFrom(s, p, lastIndexes) ==
    IF p > NumPatterns THEN <<>>
    ELSE LET ms == ExecLoop(p, s, lastIndexes[p])
         IN [k \in 1..Len(ms) |-> DateMatch(s, ms[k])] \o ExtractFrom(s, p + 1, lastIndexes)

\* extractDates(text), the patterns' lastIndex being lastIndexes at the call
extractDates(s, lastIndexes) == ExtractFrom(s, 1, lastIndexes)

\* LastIndexAfter had the null of exec not reset lastIndex: each pattern is left at
\* the end of its last match
LastIndexKept(s, lastIndexes) ==
    [p \in 1..NumPatterns |->
        LET ms == ExecLoop(p, s, lastIndexes[p])
        IN IF ms = <<>> THEN lastIndexes[p] ELSE ms[Len(ms)].index + ms[Len(ms)].length]

\* every exec loop of extractDates ends on a null, which leaves lastIndex at 0
LastIndexAfter(s, lastIndexes) == [p \in 1..NumPatterns |-> 0]

---------------------------------------------------------------------------
(* parseDate: date-fns parse under each format, then the engine's Date     *)

MonthName == <<Chars("january"), Chars("february"), Chars("march"), Chars("april"),
               Chars("may"), Chars("june"), Chars("july"), Chars("august"),
               Chars("september"), Chars("october"), Chars("november"), Chars("december")>>

\* the narrow month patterns of the en-US locale, in the order date-fns tries them
NarrowMonth == <<"j", "f", "m", "a", "m", "j", "j", "a", "s", "o", "n", "d">>

\* the format strings of parseDate, each cut into the tokens date-fns cuts it into
formats == <<
    <<"MM", "/", "dd", "/", "yyyy">>,
    <<"MM", "/", "dd", "/", "yy">>,
    <<"M", "/", "d", "/", "yyyy">>,
    <<"M", "/", "d", "/", "yy">>,
    <<"yyyy", "-", "MM", "-", "dd">>,
    <<"yyyy", "/", "MM", "/", "dd">>,
    <<"MMM", " ", "dd", " ", "yyyy">>,
    <<"MMM", " ", "dd", ",", " ", "yyyy">>,
    <<"MMMM", " ", "dd", " ", "yyyy">>,
    <<"MMMM", " ", "dd", ",", " ", "yyyy">>,
    <<"dd", " ", "MMM", " ", "yyyy">>,
    <<"dd", " ", "MMMM", " ", "yyyy">> >>

NoField == -1

NoMatch == [n |-> 0, v |-> 0]

\* n characters taken at i, read as a number
TakenNumber(s, i, n) == [n |-> n, v |-> Number(s, i, n)]

\* How many digits a numeric token may take at i: MM, dd and yy are /^\d{1,2}/,
\* yyyy is /^\d{1,4}/, M is /^(1[0-2]|0?\d)/ and d is /^(3[0-1]|[0-2]?\d)/
NumericCap(tok, s, i) ==
    CASE tok \in {"MM", "dd", "yy"} -> 2
      [] tok = "yyyy" -> 4
      [] tok = "M" ->
           IF \/ IsAt(s, i, {"1"}) /\ IsAt(s, i + 1, {"0", "1", "2"})
              \/ IsAt(s, i, {"0"}) /\ IsAt(s, i + 1, Digit)
           THEN 2 ELSE 1
      [] tok = "d" ->
           IF \/ IsAt(s, i, {"3"}) /\ IsAt(s, i + 1, {"0", "1"})
              \/ IsAt(s, i, {"0", "1", "2"}) /\ IsAt(s, i + 1, Digit)
           THEN 2 ELSE 1

\* the first k characters at i in lower case, <<>> when fewer are left
LowerAt(s, i, k) == IF i + k - 1 <= Len(s) THEN ToLowerCase(SubSeq(s, i, i + k - 1)) ELSE <<>>

\* match.month of the en-US locale for each width
WideMonths(s, i) == {m \in 1..12 : LowerAt(s, i, Len(MonthName[m])) = MonthName[m]}

WideMonth(months) ==
    IF months = {} THEN NoMatch
    ELSE [n |-> Len(MonthName[CHOOSE m \in months : TRUE]), v |-> CHOOSE m \in months : TRUE]

AbbreviatedMonth(month) == IF month = 0 THEN NoMatch ELSE [n |-> 3, v |-> month]

NarrowMonths(first) == {m \in 1..12 : first = <<NarrowMonth[m]>>}

NarrowestMonth(months) ==
    IF months = {} THEN NoMatch
    ELSE [n |-> 1, v |-> CHOOSE m \in months : \A k \in months : m <= k]

OrElse(a, b) == IF a.n > 0 THEN a ELSE b

\* What one token of a format takes from s at 1-based position i:
\* [n: the characters taken (0: no match), v: the value].
TokenMatch(tok, s, i) ==
    CASE tok \in {"MM", "dd", "yy", "yyyy", "M", "d"} ->
              TakenNumber(s, i, Run(s, Digit, i, NumericCap(tok, s, i)))
      [] tok = "MMM" ->
              OrElse(AbbreviatedMonth(MonthAt(s, i)),
                     NarrowestMonth(NarrowMonths(LowerAt(s, i, 1))))
      [] tok = "MMMM" ->
              OrElse(WideMonth(WideMonths(s, i)),
                     OrElse(AbbreviatedMonth(MonthAt(s, i)),
                            NarrowestMonth(NarrowMonths(LowerAt(s, i, 1)))))
      \* any other token is a literal character
      [] OTHER -> IF IsAt(s, i, {tok}) THEN [n |-> 1, v |-> 0] ELSE NoMatch

\* normalizeTwoDigitYear of date-fns: the year ending in these two digits within
\* 50 years of the reference year
NormalizeTwoDigitYear(twoDigitYear, currentYear) ==
    IF currentYear <= 50 THEN (IF twoDigitYear = 0 THEN 100 ELSE twoDigitYear)
    ELSE LET rangeEnd == currentYear + 50
             rangeEndCentury == (rangeEnd \div 100) * 100
         IN twoDigitYear + rangeEndCentury
              - (IF twoDigitYear >= (rangeEnd % 100) THEN 100 ELSE 0)

\* the fields read so far, with what token tok took
WithField(acc, tok, t) ==
    CASE t.n = 0 -> [acc EXCEPT !.ok = FALSE]
      [] t.n > 0 /\ tok = "yyyy" -> [acc EXCEPT !.at = @ + t.n, !.y = t.v]
      [] t.n > 0 /\ tok = "yy" -> [acc EXCEPT !.at = @ + t.n, !.y = t.v, !.two = TRUE]
      [] t.n > 0 /\ tok \in {"MM", "M", "MMM", "MMMM"} -> [acc EXCEPT !.at = @ + t.n, !.m = t.v]
      [] t.n > 0 /\ tok \in {"dd", "d"} -> [acc EXCEPT !.at = @ + t.n, !.d = t.v]
      [] OTHER -> [acc EXCEPT !.at = @ + t.n]

\* date-fns parse(s, format, new Date()): the fields the tokens read, left to right;
\* fails when a token does not match or text is left over
RECURSIVE ParseTokens(_, _, _, _)
ParseTokens(fmt, k, s, acc) ==
    IF ~acc.ok THEN acc
    ELSE IF k > Len(fmt) THEN [acc EXCEPT !.ok = acc.at > Len(s)]
    ELSE ParseTokens(fmt, k + 1, s, WithField(acc, fmt[k], TokenMatch(fmt[k], s, acc.at)))

\* the day the parsed fields name, NoDate when a field fails its validation:
\* a four-digit-pattern year must be positive, the month 1..12, the day in the month
FieldsDate(f, year) ==
    IF /\ f.ok
       /\ (f.two \/ f.y > 0)
       /\ f.m \in 1..12
       /\ f.d \in 1..DaysInMonth(year, f.m)
    THEN DaysFromCivil(year, f.m, f.d)
    ELSE NoDate

FieldsYear(f, currentYear) ==
    IF f.two THEN NormalizeTwoDigitYear(f.y, currentYear) ELSE f.y

ParsedDate(f, currentYear) == FieldsDate(f, FieldsYear(f, currentYear))

DateFnsParse(s, fmt, currentYear) ==
    ParsedDate(ParseTokens(fmt, 1, s,
                   [ok |-> TRUE, at |-> 1, y |-> NoField, m |-> NoField, d |-> NoField,
                    two |-> FALSE]),
               currentYear)

ValueOf(digits) == Number(digits, 1, Len(digits))

\* a two-digit year is read as 1950..2049
LegacyYear(digits) ==
    IF Len(digits) # 2 THEN ValueOf(digits)
    ELSE IF ValueOf(digits) < 50 THEN 2000 + ValueOf(digits)
    ELSE 1900 + ValueOf(digits)

\* the day 1..31 runs on into the next month
LegacyBuild(y, m, d) == IF m \in 1..12 /\ d \in 1..31 THEN DaysFromCivil(y, m, d) ELSE NoDate

\* which of the four shapes the whole of s has (0: none)
WholeShape(s) ==
    IF \E p \in 1..NumPatterns : DATE_PATTERNS(p, s, 1) = Len(s)
    THEN CHOOSE p \in 1..NumPatterns : DATE_PATTERNS(p, s, 1) = Len(s)
    ELSE 0

\* the number of one or two digits at i
DayAt(s, i) == Number(s, i, Run(s, Digit, i, 2))

\* the position of the first character after the run of set at i
After(s, i, set) == i + Run(s, set, i, Len(s))

LegacyNumeric(parts, shape) ==
    IF shape = 1
    THEN LegacyBuild(LegacyYear(parts[3]), ValueOf(parts[1]), ValueOf(parts[2]))
    ELSE LegacyBuild(ValueOf(parts[1]), ValueOf(parts[2]), ValueOf(parts[3]))

LegacyNamed(s, shape, year) ==
    IF shape = 3
    THEN LegacyBuild(year, MonthAt(s, 1), DayAt(s, After(s, After(s, 1, Letter), WhiteSpace)))
    ELSE LegacyBuild(year, MonthAt(s, After(s, After(s, 1, Digit), WhiteSpace)), DayAt(s, 1))

LegacyOfShape(s, shape) ==
    CASE shape \in {1, 2} -> LegacyNumeric(SplitFrom(s, DateSeparator, FALSE, 1, 1), shape)
      [] shape \in {3, 4} -> LegacyNamed(s, shape, Number(s, Len(s) - 3, 4))
      [] OTHER -> NoDate

\* The heuristics of an engine that reads dates outside the ECMAScript format (the
\* legacy parser of V8): month, day and year in the order written, the month 1..12
\* or a month name by its first three letters, the day 1..31 and running on into
\* the next month, a two-digit year in 1950..2049.  The day, or NoDate.
LegacyDate(s) == LegacyOfShape(s, WholeShape(s))

\* s is written year-month-day with dashes, as the ECMAScript date-only form is
IsoShaped(s) == Len(s) = 10 /\ s[5] = "-" /\ s[8] = "-" /\ Run(s, Digit, 1, 4) = 4

\* the local calendar day of a UTC midnight: west of Greenwich it is the evening before
LocalDayOfUtc(day, h) == IF day = NoDate \/ ~h.west THEN day ELSE day - 1

NativeOf(s, iso, h) ==
    IF iso # NoDate THEN LocalDayOfUtc(iso, h)
    ELSE IF ~h.lenient THEN NoDate
    ELSE IF IsoShaped(s) THEN LocalDayOfUtc(LegacyDate(s), h)
    ELSE LegacyDate(s)

\* new Date(s) read as a local calendar day, for the host h: a string in the
\* ECMAScript date-only form is the UTC midnight of its day; what any other string
\* gives is left to the engine, which either applies its heuristics (h.lenient) or
\* answers Invalid Date
NativeDate(s, h) == NativeOf(s, IsoDateOnly(s), h)

OrElseDate(first, second) == IF first # NoDate THEN first ELSE second

\* the first format under which date-fns parses s, from the k-th on
RECURSIVE TryFormats(_, _, _)
TryFormats(s, k, currentYear) ==
    IF k > Len(formats) THEN NoDate
    ELSE OrElseDate(DateFnsParse(s, formats[k], currentYear), TryFormats(s, k + 1, currentYear))

ParseClean(cleanDate, h) ==
    OrElseDate(TryFormats(cleanDate, 1, CivilFromDays(h.now.day).y), NativeDate(cleanDate, h))

\* parseDate(dateText): the local calendar day, or NoDate for null
parseDate(dateText, h) == ParseClean(Trim(dateText), h)

---------------------------------------------------------------------------
(* isLikelyExpiryDate and extractItemNames                                 *)

EXPIRY_KEYWORDS == <<
    Chars("exp"), Chars("expires"), Chars("expiry"), Chars("expiration"),
    Chars("best by"), Chars("best before"), Chars("use by"), Chars("use before"),
    Chars("sell by"), Chars("fresh until"), Chars("good until")>>

COMMON_ITEMS == <<
    Chars("milk"), Chars("bread"), Chars("eggs"), Chars("cheese"), Chars("butter"),
    Chars("yogurt"), Chars("chicken"), Chars("beef"), Chars("pork"), Chars("fish"),
    Chars("salmon"), Chars("turkey"), Chars("apples"), Chars("bananas"),
    Chars("oranges"), Chars("grapes"), Chars("strawberries"), Chars("lettuce"),
    Chars("tomatoes"), Chars("carrots"), Chars("onions"), Chars("potatoes"),
    Chars("rice"), Chars("pasta"), Chars("cereal"), Chars("juice"), Chars("water")>>

isLikelyExpiryDate(context) ==
    LET lowerContext == ToLowerCase(context)
    IN \E k \in 1..Len(EXPIRY_KEYWORDS) : Includes(lowerContext, EXPIRY_KEYWORDS[k])


\* item.charAt(0).toUpperCase() + item.slice(1)
Capitalize(w) == <<ToUpperChar(w[1])>> \o SubSeq(w, 2, Len(w))

HasName(items, name) == \E k \in 1..Len(items) : items[k].name = name

IsTerm(word) == \E k \in 1..Len(COMMON_ITEMS) : COMMON_ITEMS[k] = word

SomeWordIncludes(words, term) == \E w \in 1..Len(words) : Includes(words[w], term)

\* COMMON_ITEMS.forEach over the whole text: the terms some word contains, at 0.8
RECURSIVE WholeTextItems(_, _)
WholeTextItems(words, k) ==
    IF k > Len(COMMON_ITEMS) THEN <<>>
    ELSE (IF SomeWordIncludes(words, COMMON_ITEMS[k])
          THEN <<[name |-> Capitalize(COMMON_ITEMS[k]), confidence |-> 80]>>
          ELSE <<>>) \o WholeTextItems(words, k + 1)

\* one word of a date context: a term once its non-letters are removed, and not
\* yet in items, is pushed at 0.9
WithContextWord(items, cleanWord) ==
    IF Len(cleanWord) > 2 /\ IsTerm(cleanWord) /\ ~HasName(items, Capitalize(cleanWord))
    THEN Append(items, [name |-> Capitalize(cleanWord), confidence |-> 90])
    ELSE items

\* contextWords.forEach
RECURSIVE ContextWordItems(_, _, _)
ContextWordItems(contextWords, w, items) ==
    IF w > Len(contextWords) THEN items
    ELSE ContextWordItems(contextWords, w + 1,
             WithContextWord(items, KeepOnly(contextWords[w], LowerLetter)))

\* dateContexts.forEach
RECURSIVE ContextItems(_, _, _)
ContextItems(dateContexts, c, items) ==
    IF c > Len(dateContexts) THEN items
    ELSE ContextItems(dateContexts, c + 1,
             ContextWordItems(SplitWhiteSpace(ToLowerCase(dateContexts[c])), 1, items))

\* LineStartItem taking a first word of two letters too
ShortLineStartItem(firstWord) ==
    IF Len(firstWord) > 1
    THEN <<[name |-> <<ToUpperChar(firstWord[1])>> \o ToLowerCase(SubSeq(firstWord, 2, Len(firstWord))),
            confidence |-> 50]>>
    ELSE <<>>

\* firstWord.charAt(0).toUpperCase() + firstWord.slice(1).toLowerCase(), when the
\* word has at least three letters, at 0.5
LineStartItem(firstWord) ==
    IF Len(firstWord) > 2
    THEN <<[name |-> <<ToUpperChar(firstWord[1])>> \o ToLowerCase(SubSeq(firstWord, 2, Len(firstWord))),
            confidence |-> 50]>>
    ELSE <<>>

\* one line of the fallback: the first word of a line that is not blank, letters only
LineItems(trimmed) ==
    IF trimmed = <<>> THEN <<>>
    ELSE LineStartItem(KeepOnly(SplitWhiteSpace(trimmed)[1], Letter))

\* lines.forEach of the fallback
RECURSIVE LineStartItems(_, _)
LineStartItems(lines, l) ==
    IF l > Len(lines) THEN <<>>
    ELSE LineItems(Trim(lines[l])) \o LineStartItems(lines, l + 1)

\* OrLineStarts without the fallback
NoLineStarts(items, s) == items

\* the fallback runs only when the vocabulary gave nothing
OrLineStarts(items, s) == IF Len(items) = 0 THEN LineStartItems(SplitLines(s), 1) ELSE items

extractItemNames(s, dateContexts) ==
    OrLineStarts(ContextItems(dateContexts, 1,
                     WholeTextItems(SplitWhiteSpace(ToLowerCase(s)), 1)), s)

---------------------------------------------------------------------------
(* processOCRText                                                          *)

\* Math.abs(date.getTime() - today.getTime()) in quarters of a day: a parsed date is
\* the midnight of its day, the clock h.now stands q quarters into its day
Distance(day, h) ==
    LET diff == 4 * day - (4 * h.now.day + h.now.q)
    IN IF diff < 0 THEN 0 - diff ELSE diff

\* RankedBefore without the test of isExpiry: by distance alone
RankedByDistance(a, b, h) == Distance(a.date, h) < Distance(b.date, h)

\* the comparator of validDates.sort is negative
RankedBefore(a, b, h) ==
    IF a.isExpiry # b.isExpiry THEN a.isExpiry
    ELSE Distance(a.date, h) < Distance(b.date, h)

\* dateInfo => ({...dateInfo, date: parseDate(dateInfo.text), isExpiry: ...})
Classified(dateInfo, h) ==
    [text     |-> dateInfo.text,
     context  |-> dateInfo.context,
     index    |-> dateInfo.index,
     date     |-> parseDate(dateInfo.text, h),
     isExpiry |-> isLikelyExpiryDate(dateInfo.context)]

MapClassified(extractedDates, h) ==
    [k \in 1..Len(extractedDates) |-> Classified(extractedDates[k], h)]

\* validDates.sort((a, b) => ...)
RankDates(parsed, h) ==
    Sort(parsed, {ij \in (1..Len(parsed)) \X (1..Len(parsed)) :
                     RankedBefore(parsed[ij[1]], parsed[ij[2]], h)})

\* a candidate that did not parse, kept with the date of today
OrToday(classified, h) ==
    IF classified.date = NoDate THEN [classified EXCEPT !.date = h.now.day] ELSE classified

\* ValidDates without the filter, a candidate that did not parse kept as OrToday
ValidDatesUnfiltered(extractedDates, h) ==
    RankDates([k \in 1..Len(extractedDates) |-> OrToday(Classified(extractedDates[k], h), h)], h)

\* extractedDates.map(...).filter(dateInfo => dateInfo.date !== null), then the sort
ValidDates(extractedDates, h) ==
    RankDates(SelectSeq(MapClassified(extractedDates, h), LAMBDA d : d.date # NoDate), h)

ContextHas(contextLower, itemNameLower) ==
    \/ Includes(contextLower, itemNameLower)
    \/ Includes(contextLower, SubSeq(itemNameLower, 1, Min(4, Len(itemNameLower))))

\* the test of validDates.find in the first pass
ContextNames(dateInfo, name) == ContextHas(ToLowerCase(dateInfo.context), ToLowerCase(name))

FirstOf(hits) == IF hits = {} THEN 0 ELSE CHOOSE d \in hits : \A e \in hits : d <= e

\* MatchingDate without the test usedDates.has(dateIndex)
MatchingDateReused(validDates, usedDates, name) ==
    FirstOf({d \in 1..Len(validDates) : ContextNames(validDates[d], name)})

\* validDates.find: the first date, in ranked order, that is not used and whose
\* context names the item; 0 for undefined
MatchingDate(validDates, usedDates, name) ==
    FirstOf({d \in 1..Len(validDates) :
                d \notin usedDates /\ ContextNames(validDates[d], name)})

Today(h) == FormatDate(h.now.day)

DEFAULT_EXPIRY_DAYS == 7

DefaultExpiry(h) == FormatDate(AddDays(h.now.day, DEFAULT_EXPIRY_DAYS))

\* A record of processedItems.  id stands for Date.now() + Math.random() (+ index):
\* the model keeps of it only which push made it.  from is the model's own note of
\* the step that pushed the record and of the date it took (0: none).
Record(id, name, expiryDate, confidence, h, step, dateIndex) ==
    [id |-> id, name |-> name, expiryDate |-> expiryDate, addedDate |-> Today(h),
     confidence |-> confidence, from |-> [step |-> step, date |-> dateIndex]]

\* FirstStep without the 0.2 of a date that is likely an expiry date
FirstStepNoBonus(st, name, validDates, d, h) ==
    IF d = 0 THEN st
    ELSE [used  |-> st.used \cup {d},
          items |-> Append(st.items,
                       Record(Len(st.items) + 1, name.name, FormatDate(validDates[d].date),
                              name.confidence, h, "first", d))]

\* one name of the first pass, d being its matching date (0: none)
FirstStep(st, name, validDates, d, h) ==
    IF d = 0 THEN st
    ELSE [used  |-> st.used \cup {d},
          items |-> Append(st.items,
                       Record(Len(st.items) + 1, name.name, FormatDate(validDates[d].date),
                              name.confidence + (IF validDates[d].isExpiry THEN 20 ELSE 0),
                              h, "first", d))]

\* First pass, itemNames.forEach from the i-th on: st is [used, items]
RECURSIVE FirstPass(_, _, _, _, _)
FirstPass(itemNames, validDates, i, st, h) ==
    IF i > Len(itemNames) THEN st
    ELSE FirstPass(itemNames, validDates, i + 1,
             FirstStep(st, itemNames[i], validDates,
                       MatchingDate(validDates, st.used, itemNames[i].name), h),
             h)

\* the indexes of validDates that usedDates does not hold, in order
RemainingDates(validDates, usedDates) ==
    SelectSeq([d \in 1..Len(validDates) |-> d], LAMBDA d : d \notin usedDates)

\* PairRemaining with the confidence halved for a name that has a date partner too
PairRemainingAllHalved(remainingItems, remainingDates, validDates, done, h) ==
    [k \in 1..Len(remainingItems) |->
        IF k <= Len(remainingDates)
        THEN Record(done + k, remainingItems[k].name,
                    FormatDate(validDates[remainingDates[k]].date),
                    remainingItems[k].confidence \div 2, h, "second", remainingDates[k])
        ELSE Record(done + k, remainingItems[k].name, DefaultExpiry(h),
                    remainingItems[k].confidence \div 2, h, "default", 0)]

\* PairRemaining with the confidence of a name left without a date kept whole
PairRemainingWhole(remainingItems, remainingDates, validDates, done, h) ==
    [k \in 1..Len(remainingItems) |->
        IF k <= Len(remainingDates)
        THEN Record(done + k, remainingItems[k].name,
                    FormatDate(validDates[remainingDates[k]].date),
                    remainingItems[k].confidence, h, "second", remainingDates[k])
        ELSE Record(done + k, remainingItems[k].name, DefaultExpiry(h),
                    remainingItems[k].confidence, h, "default", 0)]

\* remainingItems.forEach: each paired with the date of the same position in
\* remainingDates, or given the default expiry at half its confidence
PairRemaining(remainingItems, remainingDates, validDates, done, h) ==
    [k \in 1..Len(remainingItems) |->
        IF k <= Len(remainingDates)
        THEN Record(done + k, remainingItems[k].name,
                    FormatDate(validDates[remainingDates[k]].date),
                    remainingItems[k].confidence, h, "second", remainingDates[k])
        ELSE Record(done + k, remainingItems[k].name, DefaultExpiry(h),
                    remainingItems[k].confidence \div 2, h, "default", 0)]

\* SecondPass with every name taken up again, not only those after the first
\* processedItems.length
SecondPassUnsliced(itemNames, validDates, st, h) ==
    st.items \o PairRemaining(itemNames, RemainingDates(validDates, st.used),
                              validDates, Len(st.items), h)

\* Second pass: remainingItems = itemNames.slice(processedItems.length),
\* remainingDates = validDates.filter(not used)
SecondPass(itemNames, validDates, st, h) ==
    st.items \o PairRemaining(SubSeq(itemNames, Len(st.items) + 1, Len(itemNames)),
                              RemainingDates(validDates, st.used),
                              validDates, Len(st.items), h)

MAX_GENERIC_ITEMS == 3

\* GenericItems without slice(0, 3)
GenericItemsAll(validDates, h) ==
    [k \in 1..Len(validDates) |->
        Record(k, Chars("Item ") \o Digits(k), FormatDate(validDates[k].date), 30, h, "generic", k)]

\* validDates.slice(0, 3).forEach: `Item ${index + 1}` at 0.3
GenericItems(validDates, h) ==
    [k \in 1..Min(MAX_GENERIC_ITEMS, Len(validDates)) |->
        Record(k, Chars("Item ") \o Digits(k), FormatDate(validDates[k].date), 30, h, "generic", k)]

\* OrGeneric without the generic items
NoGeneric(both, validDates, h) == both

\* if (processedItems.length === 0 && validDates.length > 0)
OrGeneric(both, validDates, h) ==
    IF Len(both) = 0 /\ Len(validDates) > 0 THEN GenericItems(validDates, h) ELSE both

\* processedItems as it stands before the final sort
ProcessedItems(itemNames, validDates, h) ==
    OrGeneric(SecondPass(itemNames, validDates,
                         FirstPass(itemNames, validDates, 1, [used |-> {}, items |-> <<>>], h),
                         h),
              validDates, h)

\* new Date(a.expiryDate) - new Date(b.expiryDate) < 0, given the two dates; false
\* when either is an Invalid Date, the difference then being NaN
KeyBefore(ka, kb) == ka # NoDate /\ kb # NoDate /\ ka < kb

KeySame(ka, kb) == ~KeyBefore(ka, kb) /\ ~KeyBefore(kb, ka)

\* the comparator of the final sort is consistent: "neither before the other" is
\* transitive (NaN for an Invalid Date breaks it)
ConsistentKeys(keys) ==
    \A i, j, k \in 1..Len(keys) :
        KeySame(keys[i], keys[j]) /\ KeySame(keys[j], keys[k]) => KeySame(keys[i], keys[k])

\* the orders in which a sort by keys may leave the positions 1..Len(keys): the
\* stable ascending one under a consistent comparator, any at all otherwise
KeyOrders(keys) ==
    IF ConsistentKeys(keys)
    THEN {Sort([i \in 1..Len(keys) |-> i],
               {ij \in (1..Len(keys)) \X (1..Len(keys)) : KeyBefore(keys[ij[1]], keys[ij[2]])})}
    ELSE Permutations(1..Len(keys))

\* What processedItems.sort((a, b) => new Date(a.expiryDate) - new Date(b.expiryDate))
\* may return
SortOutcomes(items, h) ==
    {[i \in 1..Len(items) |-> items[order[i]]] :
        order \in KeyOrders([i \in 1..Len(items) |-> NativeDate(items[i].expiryDate, h)])}

\* What a call leaves behind: the lists it built, in the order it builds them, the
\* list it returned, and whether an exception was thrown inside the try block
NoRun == [threw |-> FALSE, extractedDates |-> <<>>, validDates |-> <<>>, itemNames |-> <<>>,
          processedItems |-> <<>>, returned |-> <<>>]

Contexts(validDates) == [d \in 1..Len(validDates) |-> validDates[d].context]

Built(extractedDates, validDates, itemNames, h) ==
    [extractedDates |-> extractedDates, validDates |-> validDates, itemNames |-> itemNames,
     processedItems |-> ProcessedItems(itemNames, validDates, h)]

WithNames(s, extractedDates, validDates, h) ==
    Built(extractedDates, validDates, extractItemNames(s, Contexts(validDates)), h)

WithDates(s, extractedDates, h) == WithNames(s, extractedDates, ValidDates(extractedDates, h), h)

\* The body of the try block up to the final sort
Pipeline(s, h, lastIndexes) == WithDates(s, extractDates(s, lastIndexes), h)

\* return processedItems.sort(...)
Returned(run, sorted) ==
    [threw |-> FALSE, extractedDates |-> run.extractedDates, validDates |-> run.validDates,
     itemNames |-> run.itemNames, processedItems |-> run.processedItems, returned |-> sorted]

\* Caught returning the list built so far
CaughtPartial(run) ==
    [threw |-> TRUE, extractedDates |-> run.extractedDates, validDates |-> run.validDates,
     itemNames |-> run.itemNames, processedItems |-> run.processedItems,
     returned |-> run.processedItems]

\* catch (error) { console.error(...); return []; }
Caught(run) ==
    [threw |-> TRUE, extractedDates |-> run.extractedDates, validDates |-> run.validDates,
     itemNames |-> run.itemNames, processedItems |-> run.processedItems, returned |-> <<>>]

\* How the call may end: the sorted list is returned, or an exception is thrown
\* inside the try block, once the lists are built or before the scan has begun
Outcomes(run, s, h, lastIndexes) ==
    {[lastIndex |-> LastIndexAfter(s, lastIndexes), ocr |-> Returned(run, sorted)] :
        sorted \in SortOutcomes(run.processedItems, h)}
    \cup {[lastIndex |-> LastIndexAfter(s, lastIndexes), ocr |-> Caught(run)]}
    \cup {[lastIndex |-> lastIndexes, ocr |-> Caught(NoRun)]}

\* processOCRText(text): the guard, the try block and its catch
processOCRText ==
    /\ pc = "ocr"
    /\ pc' = "done"
    /\ IF text.type # "string" \/ text.value = <<>>
       THEN /\ ocr' = NoRun
            /\ lastIndex' = lastIndex
       ELSE \E out \in Outcomes(Pipeline(text.value, env, lastIndex), text.value, env, lastIndex) :
               /\ ocr' = out.ocr
               /\ lastIndex' = out.lastIndex
    /\ UNCHANGED <<env, text, item, validated, revalidated, earlier, writings, store, got, app, list, saved, page, modal>>

---------------------------------------------------------------------------
(* validateExtractedItem                                                   *)

\* JavaScript values, as far as the validator tells them apart: str is the text of
\* a string, num the value of a finite number (a confidence in hundredths)
Undefined == [type |-> "undefined", str |-> <<>>, num |-> 0]

Null == [type |-> "null", str |-> <<>>, num |-> 0]

Infinity == [type |-> "infinity", str |-> <<>>, num |-> 0]

StringOf(s) == [type |-> "string", str |-> s, num |-> 0]

NumberOf(n) == [type |-> "number", str |-> <<>>, num |-> n]

\* typeof v
TypeOf(v) ==
    CASE v.type \in {"number", "infinity"} -> "number"
      [] v.type = "null" -> "object"
      [] OTHER -> v.type

\* v where a condition is wanted
Truthy(v) ==
    CASE v.type = "string" -> v.str # <<>>
      [] v.type = "number" -> v.num # 0
      [] v.type \in {"infinity", "object"} -> TRUE
      [] OTHER -> FALSE

MAX_NAME_LENGTH == 50

\* CleanName without the trim
UntrimmedName(name) ==
    IF Truthy(name) /\ TypeOf(name) = "string"
    THEN Substring(name.str, 0, Min(MAX_NAME_LENGTH, Len(name.str)))
    ELSE <<>>

\* if (item.name && typeof item.name === 'string') item.name.trim().substring(0, 50),
\* over the initial ''
CleanName(name) ==
    IF Truthy(name) /\ TypeOf(name) = "string"
    THEN Substring(Trim(name.str), 0, Min(MAX_NAME_LENGTH, Len(Trim(name.str))))
    ELSE <<>>

\* isValid(date) ? format(date, 'yyyy-MM-dd') : format(addDays(new Date(), 7), 'yyyy-MM-dd')
FormatOrDefault(date, h) == IF date # NoDate THEN FormatDate(date) ELSE DefaultExpiry(h)

\* if (item.expiryDate) { const date = new Date(item.expiryDate); ... }, over the
\* initial ''; the expiryDate is text where it is given
CleanExpiryDate(expiryDate, h) ==
    IF Truthy(expiryDate) THEN FormatOrDefault(NativeDate(expiryDate.str, h), h) ELSE <<>>

\* CleanConfidence without the test confidence <= 1
CleanConfidenceUncapped(confidence) ==
    IF TypeOf(confidence) = "number" /\ confidence.type = "number"
       /\ confidence.num >= 0
    THEN confidence.num
    ELSE 0

\* typeof confidence === 'number' && confidence >= 0 && confidence <= 1, over the
\* initial 0
CleanConfidence(confidence) ==
    IF TypeOf(confidence) = "number" /\ confidence.type = "number"
       /\ confidence.num >= 0 /\ confidence.num <= 100
    THEN confidence.num
    ELSE 0

\* null, written as a record so that results compare
Rejected ==
    [null |-> TRUE, id |-> Undefined, name |-> <<>>, expiryDate |-> <<>>,
     addedDate |-> <<>>, confidence |-> 0]

\* return cleanedItem.name ? cleanedItem : null
NamedOrNull(cleanedItem) == IF cleanedItem.name # <<>> THEN cleanedItem ELSE Rejected

\* validateExtractedItem(item), fresh being the value of Date.now() + Math.random()
CleanedItem(it, h, fresh) ==
    IF ~Truthy(it) \/ TypeOf(it) # "object" THEN Rejected
    ELSE NamedOrNull(
             [null       |-> FALSE,
              id         |-> IF Truthy(it.id) THEN it.id ELSE fresh,
              name       |-> CleanName(it.name),
              expiryDate |-> CleanExpiryDate(it.expiryDate, h),
              addedDate  |-> Today(h),
              confidence |-> CleanConfidence(it.confidence)])

\* a record handed on as it is
AsItem(record) ==
    [type |-> "object", str |-> <<>>, num |-> 0,
     id |-> record.id, name |-> StringOf(record.name),
     expiryDate |-> StringOf(record.expiryDate), addedDate |-> StringOf(record.addedDate),
     confidence |-> NumberOf(record.confidence)]

\* JSON.parse(JSON.stringify(v)) of one property: a number that is not finite is
\* written as null, a property that is undefined is left out and so reads as
\* undefined, finite numbers and strings are read back as written
JsonValue(v) == IF v.type = "infinity" THEN Null ELSE v

\* a record exported and imported again
JsonItem(it) ==
    [it EXCEPT !.id = JsonValue(@), !.name = JsonValue(@), !.expiryDate = JsonValue(@),
               !.addedDate = JsonValue(@), !.confidence = JsonValue(@)]

\* the values Date.now() + Math.random() may take: positive numbers
FreshIds == {NumberOf(1001), NumberOf(1002)}

\* validateExtractedItem(item)
validateExtractedItem ==
    /\ pc = "validate"
    /\ pc' = "validated"
    /\ \E fresh \in FreshIds : validated' = CleanedItem(item, env, fresh)
    /\ UNCHANGED <<env, text, lastIndex, ocr, item, revalidated, earlier, writings, store, got, app, list, saved, page, modal>>

\* validateExtractedItem(validated): the record validated a second time
validateAgain ==
    /\ pc = "validated"
    /\ ~validated.null
    /\ pc' = "again"
    /\ \E fresh \in FreshIds : revalidated' = CleanedItem(AsItem(validated), env, fresh)
    /\ UNCHANGED <<env, text, lastIndex, ocr, item, validated, earlier, writings, store, got, app, list, saved, page, modal>>

\* validateExtractedItem(JSON.parse(JSON.stringify(validated)))
validateParsed ==
    /\ pc = "validated"
    /\ ~validated.null
    /\ pc' = "parsed"
    /\ \E fresh \in FreshIds :
          revalidated' = CleanedItem(JsonItem(AsItem(validated)), env, fresh)
    /\ UNCHANGED <<env, text, lastIndex, ocr, item, validated, earlier, writings, store, got, app, list, saved, page, modal>>

---------------------------------------------------------------------------
(* The texts and hosts the interpreter is run on                           *)

\* A text is up to MaxPieces of these, one after the other
Pieces == {
    Chars("Milk "), Chars("Bread (sliced 800g) "), Chars("apple's "),
    Chars("exp "), Chars("2kg "),
    Chars("12/25/2024\n"), Chars("2024-12-20\n"), Chars("13/45/2024\n"),
    Chars("0000-02-29\n")}

MaxPieces == 3

RECURSIVE TextsOf(_)
TextsOf(n) ==
    IF n = 0 THEN {<<>>}
    ELSE LET shorter == TextsOf(n - 1)
         IN shorter \cup {t \o p : t \in shorter, p \in Pieces}

Texts == TextsOf(MaxPieces)

TextInputs ==
    {[type |-> "string", value |-> t] : t \in Texts}
      \cup {[type |-> ty, value |-> <<>>] : ty \in {"undefined", "number", "object"}}

\* the clock: a day and the quarter of the day it stands in
Clocks == {[day |-> DaysFromCivil(2024, 12, 19), q |-> 1]}

NoText == [type |-> "undefined", value |-> <<>>]

\* no call of processOCRText has returned yet
NoCalls == [calls |-> 0, matches |-> 0]

\* parseDate has not been called
NoParse == [slash |-> NoDate, dash |-> NoDate]

\* nothing is stored, no itemStorage call was made, no component is mounted
NoStore == [kind |-> "absent", items |-> <<>>]

NoResult == [op |-> "none"]

Unmounted == [phase |-> "unmounted"]

\* the storage and the components as they are while the functions above are tried
Elsewhere ==
    /\ store = NoStore
    /\ got = NoResult
    /\ app = Unmounted
    /\ list = Unmounted
    /\ saved = NoStore
    /\ page = Unmounted
    /\ modal = Unmounted

NoItem ==
    [type |-> "undefined", str |-> <<>>, num |-> 0, id |-> Undefined, name |-> Undefined,
     expiryDate |-> Undefined, addedDate |-> Undefined, confidence |-> Undefined]

InitOCR ==
    /\ pc = "ocr"
    /\ env \in [now : Clocks, lenient : BOOLEAN, west : {FALSE}]
    /\ text \in TextInputs
    /\ lastIndex = [p \in 1..NumPatterns |-> 0]
    /\ ocr = NoRun
    /\ item = NoItem
    /\ validated = Rejected
    /\ revalidated = Rejected
    /\ earlier = NoCalls
    /\ writings = NoParse
    /\ Elsewhere

NextOCR == processOCRText

SpecOCR == InitOCR /\ [][NextOCR]_vars

---------------------------------------------------------------------------
(* processOCRText on texts with dates near a keyword and far from it       *)

RankPieces == {Chars("exp "), Chars("Bread (sliced 800g) "), Chars("12/25/2024\n"), Chars("2024-12-20\n")}

MaxRankPieces == 4

\* the texts of at most n pieces, no piece twice
RECURSIVE RankTextsOf(_)
RankTextsOf(n) ==
    IF n = 0 THEN {<<>>}
    ELSE LET shorter == RankTextsOf(n - 1)
         IN shorter \cup {tp[1] \o tp[2] : tp \in {x \in shorter \X RankPieces : ~Includes(x[1], x[2])}}

InitRank ==
    /\ pc = "ocr"
    /\ env \in [now : Clocks, lenient : BOOLEAN, west : {FALSE}]
    /\ text \in {[type |-> "string", value |-> t] : t \in RankTextsOf(MaxRankPieces)}
    /\ lastIndex = [p \in 1..NumPatterns |-> 0]
    /\ ocr = NoRun
    /\ item = NoItem
    /\ validated = Rejected
    /\ revalidated = Rejected
    /\ earlier = NoCalls
    /\ writings = NoParse
    /\ Elsewhere

SpecRank == InitRank /\ [][NextOCR]_vars

---------------------------------------------------------------------------
(* processOCRText called again and again: the patterns are module-level    *)
(* objects, their lastIndex outlives the call                              *)

CallPieces == {Chars("Milk "), Chars("12/25/2024\n"), Chars("2024-12-20\n"), Chars("13/45/2024\n")}

MaxCallPieces == 2

\* the calls made after the first
MaxRepeats == 1

RECURSIVE CallTextsOf(_)
CallTextsOf(n) ==
    IF n = 0 THEN {<<>>}
    ELSE LET shorter == CallTextsOf(n - 1)
         IN shorter \cup {t \o p : t \in shorter, p \in CallPieces}

CallInputs == {[type |-> "string", value |-> t] : t \in CallTextsOf(MaxCallPieces)} \cup {NoText}

InitCalls ==
    /\ pc = "ocr"
    /\ env \in [now : Clocks, lenient : {TRUE}, west : {FALSE}]
    /\ text \in CallInputs
    /\ lastIndex = [p \in 1..NumPatterns |-> 0]
    /\ ocr = NoRun
    /\ item = NoItem
    /\ validated = Rejected
    /\ revalidated = Rejected
    /\ earlier = NoCalls
    /\ writings = NoParse
    /\ Elsewhere

\* the exported processOCRText is called once more, on any text; the patterns are
\* as the call before left them
processAgain ==
    /\ pc = "done" /\ earlier.calls < MaxRepeats
    /\ pc' = "ocr"
    /\ text' \in CallInputs
    /\ earlier' = [calls |-> earlier.calls + 1,
                   matches |-> earlier.matches + Len(ocr.extractedDates)]
    /\ ocr' = NoRun
    /\ UNCHANGED <<env, lastIndex, item, validated, revalidated, writings, store, got, app, list, saved, page, modal>>

NextCalls == processOCRText \/ processAgain

SpecCalls == InitCalls /\ [][NextCalls]_vars

---------------------------------------------------------------------------
(* parseDate on one date of the month/day/year shape, written with slashes *)
(* and written with dashes                                                 *)

ParseMonths == {1, 2, 12}

ParseDays == {1, 5, 28, 29, 31}

ParseYears == {2023, 2024}

\* month/day/year with slashes: the numbers padded to two digits or not, the year
\* in four digits or in its last two
Written(m, d, y, padded, short) ==
    (IF padded THEN AddLeadingZeros(m, 2) ELSE Digits(m)) \o <<"/">>
    \o (IF padded THEN AddLeadingZeros(d, 2) ELSE Digits(d)) \o <<"/">>
    \o (IF short THEN AddLeadingZeros(y % 100, 2) ELSE Digits(y))

\* the same text with the other separator [\/\-] of the pattern
Dashed(s) == [i \in 1..Len(s) |-> IF s[i] = "/" THEN "-" ELSE s[i]]

\* the writing names a day of the calendar
ValidWriting(m, d, y) == d <= DaysInMonth(y, m)

InitParse ==
    /\ pc = "parse"
    /\ env \in [now : Clocks, lenient : BOOLEAN, west : BOOLEAN]
    /\ \E m \in ParseMonths, d \in ParseDays, y \in ParseYears, padded \in BOOLEAN, short \in BOOLEAN :
          /\ ValidWriting(m, d, y)
          /\ text = [type |-> "string", value |-> Written(m, d, y, padded, short)]
    /\ lastIndex = [p \in 1..NumPatterns |-> 0]
    /\ ocr = NoRun
    /\ item = NoItem
    /\ validated = Rejected
    /\ revalidated = Rejected
    /\ earlier = NoCalls
    /\ writings = NoParse
    /\ Elsewhere

\* parseDate(text) and parseDate of the same date with dashes
parseWritings ==
    /\ pc = "parse"
    /\ pc' = "resolved"
    /\ writings' = [slash |-> parseDate(text.value, env),
                    dash  |-> parseDate(Dashed(text.value), env)]
    /\ UNCHANGED <<env, text, lastIndex, ocr, item, validated, revalidated, earlier, store, got, app, list, saved, page, modal>>

NextParse == parseWritings

SpecParse == InitParse /\ [][NextParse]_vars

\* k letters
Pad(k) == [i \in 1..k |-> "x"]

\* the longest name given is this much longer than MAX_NAME_LENGTH
MaxNameOver == 1

NameInputs ==
    {Undefined, NumberOf(123), StringOf(<<>>), StringOf(Chars("   ")),
     StringOf(Chars("Milk")), StringOf(Chars(" Milk\n"))}
      \cup {StringOf(Pad(n - 2) \o Chars(" b")) :
               n \in (MAX_NAME_LENGTH - 1)..(MAX_NAME_LENGTH + MaxNameOver)}

ExpiryInputs ==
    {Undefined, StringOf(<<>>), StringOf(Chars("2024-12-25")), StringOf(Chars("2025-01-01")),
     StringOf(Chars("2024-02-30")), StringOf(Chars("12/25/2024")), StringOf(Chars("soon")),
     StringOf(Chars("0000-02-29"))}

ConfidenceInputs ==
    {Undefined, NumberOf(-10), NumberOf(0), NumberOf(50), NumberOf(100), NumberOf(110),
     StringOf(Chars("0.5"))}

IdInputs == {Undefined, NumberOf(0), NumberOf(7), StringOf(Chars("abc")), Infinity}

AddedInputs == {Undefined, StringOf(Chars("2024-01-01"))}

ItemInputs ==
    {NoItem, [NoItem EXCEPT !.type = "null"], [NoItem EXCEPT !.type = "string", !.str = Chars("Milk")]}
      \cup [type : {"object"}, str : {<<>>}, num : {0}, id : IdInputs, name : NameInputs,
            expiryDate : ExpiryInputs, addedDate : AddedInputs, confidence : ConfidenceInputs]

ValidateClocks == {[day |-> DaysFromCivil(2024, 12, 28), q |-> 1]}

InitValidate ==
    /\ pc = "validate"
    /\ env \in [now : ValidateClocks, lenient : BOOLEAN, west : BOOLEAN]
    /\ text = NoText
    /\ lastIndex = [p \in 1..NumPatterns |-> 0]
    /\ ocr = NoRun
    /\ item \in ItemInputs
    /\ validated = Rejected
    /\ revalidated = Rejected
    /\ earlier = NoCalls
    /\ writings = NoParse
    /\ Elsewhere

NextValidate == validateExtractedItem \/ validateAgain \/ validateParsed

SpecValidate == InitValidate /\ [][NextValidate]_vars

---------------------------------------------------------------------------
(* itemStorage: the items kept in localStorage under 'grocery_items'       *)

functionVars == <<text, lastIndex, ocr, item, validated, revalidated, earlier, writings>>

\* a key the object does not have
Absent == [type |-> "absent", str |-> <<>>, num |-> 0]

\* obj.key
Get(v) == IF v = Absent THEN Undefined ELSE v

\* JSON.stringify leaves out a key whose value is undefined
Stringified(v) == IF v = Undefined THEN Absent ELSE v

\* the engine reads an ISO date as midnight UTC, which west of Greenwich is a
\* quarter of a day before local midnight; any other date as local midnight
InstantOf(iso, native, h) ==
    IF iso # NoDate THEN 4 * iso - (IF h.west THEN 1 ELSE 0)
    ELSE IF native = NoDate THEN NoDate ELSE 4 * native

\* new Date(s).getTime() in quarters of a day of local time, NoDate for NaN
NativeInstant(s, h) == InstantOf(IsoDateOnly(s), NativeDate(s, h), h)

\* Math.ceil(diffTime / (1000 * 60 * 60 * 24)), diffTime in quarters of a day
CeilDays(quarters) == 0 - ((0 - quarters) \div 4)

\* {...item, isExpired, isExpiringSoon}
Flagged(it, expired, soon) ==
    [id |-> it.id, name |-> it.name, expiryDate |-> it.expiryDate,
     isExpired |-> expired, isExpiringSoon |-> soon]

\* StatusOf counting the day of expiry itself as expired
StatusOfInclusive(it, instant, diffDays) ==
    IF instant = NoDate THEN Flagged(it, FALSE, FALSE)
    ELSE Flagged(it, diffDays <= 0, diffDays >= 0 /\ diffDays <= 3)

\* the flags of diffDays; every comparison with NaN is false
StatusOf(it, instant, diffDays) ==
    IF instant = NoDate THEN Flagged(it, FALSE, FALSE)
    ELSE Flagged(it, diffDays < 0, diffDays >= 0 /\ diffDays <= 3)

StatusAt(it, instant, h) == StatusOf(it, instant, CeilDays(instant - (4 * h.now.day + h.now.q)))

updateExpiryStatus(it, h) ==
    IF ~Truthy(Get(it.expiryDate)) THEN Flagged(it, FALSE, FALSE)
    ELSE StatusAt(it, NativeInstant(it.expiryDate.str, h), h)

\* itemStorage.getAll(): [] when nothing is stored or JSON.parse throws
getAll(st, h) ==
    IF st.kind # "json" THEN <<>>
    ELSE [k \in 1..Len(st.items) |-> updateExpiryStatus(st.items[k], h)]

\* items.findIndex(item => item.id === id), from 1; 0 for -1
FindIndex(items, id) ==
    IF \E k \in 1..Len(items) : Get(items[k].id) = id
    THEN CHOOSE k \in 1..Len(items) :
            /\ Get(items[k].id) = id
            /\ \A j \in 1..(k - 1) : Get(items[j].id) # id
    ELSE 0

\* items.find(item => item.id === id) || null: the item in a list, the empty list for null
Found(items, k) == IF k = 0 THEN <<>> ELSE <<items[k]>>

FoundIn(items, id) == Found(items, FindIndex(items, id))

\* itemStorage.getById(id)
getById(st, id, h) == FoundIn(getAll(st, h), id)

\* createDefaultItem(overrides): the defaults, each replaced where overrides has the key
createDefaultItem(overrides, generated) ==
    [id             |-> IF overrides.id = Absent THEN generated ELSE overrides.id,
     name           |-> IF overrides.name = Absent THEN StringOf(<<>>) ELSE overrides.name,
     expiryDate     |-> IF overrides.expiryDate = Absent THEN StringOf(<<>>) ELSE overrides.expiryDate,
     isExpired      |-> overrides.isExpired,
     isExpiringSoon |-> overrides.isExpiringSoon]

\* items[existingIndex] = itemWithStatus, or items.push(createDefaultItem(itemWithStatus))
Put(items, existingIndex, itemWithStatus, generated) ==
    IF existingIndex > 0 THEN [items EXCEPT ![existingIndex] = itemWithStatus]
    ELSE Append(items, createDefaultItem(itemWithStatus, generated))

\* JSON.stringify(items) as localStorage keeps it
StoredJson(items) ==
    [kind  |-> "json",
     items |-> [k \in 1..Len(items) |->
                  [id |-> Stringified(items[k].id), name |-> Stringified(items[k].name),
                   expiryDate |-> Stringified(items[k].expiryDate),
                   isExpired |-> items[k].isExpired, isExpiringSoon |-> items[k].isExpiringSoon]]]

\* itemStorage.save(itemData): what is stored and what is returned
SaveItem(items, itemData, itemWithStatus, generated) ==
    [store    |-> StoredJson(Put(items, FindIndex(items, Get(itemData.id)), itemWithStatus, generated)),
     returned |-> itemWithStatus]

save(st, itemData, h, generated) ==
    SaveItem(getAll(st, h), itemData, updateExpiryStatus(itemData, h), generated)

\* what the store may hold when a call is made: ids, expiry dates around the day
\* of the clock (2024-12-19), flags as some earlier day left them
StoredIds == {StringOf(Chars("a")), StringOf(Chars("b"))}

StoredExpiryDates ==
    {Absent, StringOf(Chars("2024-12-18")), StringOf(Chars("2024-12-19")),
     StringOf(Chars("2024-12-22")), StringOf(Chars("2024-12-23")), StringOf(Chars("soon"))}

StoredItems ==
    {[id |-> id, name |-> StringOf(Chars("Milk")), expiryDate |-> expiryDate,
      isExpired |-> stale, isExpiringSoon |-> stale] :
        id \in StoredIds, expiryDate \in StoredExpiryDates, stale \in BOOLEAN}

MaxStored == 2

RECURSIVE ListsOf(_)
ListsOf(n) ==
    IF n = 0 THEN {<<>>}
    ELSE LET shorter == ListsOf(n - 1)
         IN shorter \cup {Append(l, it) : l \in shorter, it \in StoredItems}

StoreInputs ==
    {[kind |-> "json", items |-> l] : l \in ListsOf(MaxStored)}
      \cup {[kind |-> k, items |-> <<>>] : k \in {"absent", "garbage"}}

\* the argument of save: an id that is stored, one that is not, one that is
\* undefined, none
SaveInputs ==
    {[id |-> id, name |-> name, expiryDate |-> expiryDate] :
        id \in {Absent, Undefined, StringOf(Chars("a")), StringOf(Chars("c"))},
        name \in {Absent, StringOf(Chars("Eggs"))},
        expiryDate \in {Absent, StringOf(Chars("2024-12-19"))}}

\* generateId(): Date.now() and Math.random() in base 36
GeneratedIds == {StringOf(Chars("m4x1"))}

\* items.filter(item => item.isExpired)
Expired(items) == SelectSeq(items, LAMBDA it : it.isExpired)

\* items.filter(item => item.isExpiringSoon && !item.isExpired)
ExpiringSoon(items) == SelectSeq(items, LAMBDA it : it.isExpiringSoon /\ ~it.isExpired)

\* itemStorage.getAll()
readAll ==
    /\ pc = "storage"
    /\ pc' = "read"
    /\ got' = [op |-> "getAll", items |-> getAll(store, env)]
    /\ UNCHANGED <<env, store, functionVars, app, list, saved, page, modal>>

\* itemStorage.getExpired() and itemStorage.getExpiringSoon(), one after the other
\* at one reading of the clock
readFlagged ==
    /\ pc = "storage"
    /\ pc' = "read"
    /\ got' = [op |-> "flagged", expired |-> Expired(getAll(store, env)),
               soon |-> ExpiringSoon(getAll(store, env))]
    /\ UNCHANGED <<env, store, functionVars, app, list, saved, page, modal>>

SavedAs(itemData, outcome) ==
    /\ store' = outcome.store
    /\ got' = [op |-> "save", given |-> itemData, returned |-> outcome.returned, found |-> <<>>]

\* itemStorage.save(itemData)
saveItem ==
    /\ pc = "storage"
    /\ pc' = "saved"
    /\ \E itemData \in SaveInputs, generated \in GeneratedIds :
          SavedAs(itemData, save(store, itemData, env, generated))
    /\ UNCHANGED <<env, functionVars, app, list, saved, page, modal>>

\* itemStorage.getById(returned.id), returned being what save returned
fetchSaved ==
    /\ pc = "saved"
    /\ pc' = "fetched"
    /\ got' = [got EXCEPT !.op = "getById", !.found = getById(store, Get(got.returned.id), env)]
    /\ UNCHANGED <<env, store, functionVars, app, list, saved, page, modal>>

NextStorage == readAll \/ readFlagged \/ saveItem \/ fetchSaved

InitStorage ==
    /\ pc = "storage"
    /\ env \in [now : Clocks, lenient : {TRUE}, west : BOOLEAN]
    /\ store \in StoreInputs
    /\ got = NoResult
    /\ text = NoText
    /\ lastIndex = [p \in 1..NumPatterns |-> 0]
    /\ ocr = NoRun
    /\ item = NoItem
    /\ validated = Rejected
    /\ revalidated = Rejected
    /\ earlier = NoCalls
    /\ writings = NoParse
    /\ app = Unmounted
    /\ list = Unmounted
    /\ saved = NoStore
    /\ page = Unmounted
    /\ modal = Unmounted

SpecStorage == InitStorage /\ [][NextStorage]_vars

---------------------------------------------------------------------------
(* App with its CameraCapture, and ItemsListPage, over 'groceryItems'      *)

\* an item of the grocery list: the id and the name are all the handlers tell apart
GroceryItem(id, name) == [id |-> id, name |-> name]

\* JSON.parse(localStorage.getItem('groceryItems')) where a component loads: the
\* list, or nothing when the key is missing, the text is empty or does not parse
Loaded(st) == IF st.kind = "json" THEN <<st.items>> ELSE <<>>

\* localStorage.setItem('groceryItems', JSON.stringify(items)): ids and names are
\* strings, which the text gives back as they were
SetItem(items) == [kind |-> "json", items |-> items]

MaxGroceryItems == 3

MaxClock == 6

\* Date.now() when App mounts, in milliseconds; the saved items are older
MountTimes == {3}

SavedNames == {Chars("Jam")}

UpdatedNames == {Chars("Tea")}

\* what 'groceryItems' holds before the components mount: nothing, a text that
\* does not parse, or a list saved earlier, its ids distinct
SavedInputs ==
    {NoStore, [kind |-> "garbage", items |-> <<>>], SetItem(<<>>)}
    \cup {SetItem(<<GroceryItem(Digits(1), n)>>) : n \in SavedNames}
    \cup {SetItem(<<GroceryItem(Digits(1), n), GroceryItem(Digits(2), m)>>) :
            n \in SavedNames, m \in SavedNames \cup UpdatedNames}

\* App's first render and its two effects: the load effect queues
\* setGroceryItems(parsed) and setLoading(false), the save effect sees loading
\* true and writes nothing
mountApp ==
    /\ app = Unmounted
    /\ \E now \in MountTimes :
          app' = [phase |-> "effects", groceryItems |-> <<>>, loading |-> TRUE,
                  queued |-> Loaded(saved), extractedItems |-> <<>>, clock |-> now]
    /\ UNCHANGED <<pc, env, store, got, functionVars, list, saved, page, modal>>

\* the render that follows: the queued updates are state, loading is false and the
\* save effect writes groceryItems
commitApp ==
    /\ app.phase = "effects"
    /\ LET groceryItems == IF app.queued = <<>> THEN app.groceryItems ELSE app.queued[1]
       IN /\ app' = [app EXCEPT !.phase = "ready", !.groceryItems = groceryItems,
                                !.loading = FALSE, !.queued = <<>>]
          /\ saved' = SetItem(groceryItems)
    /\ UNCHANGED <<pc, env, store, got, functionVars, list, page, modal>>

\* CameraCapture.handleFileCapture and its timer: the three mock items
mockExtractedItems == <<Chars("Milk"), Chars("Bread"), Chars("Eggs")>>

handleFileCapture ==
    /\ app.phase = "ready"
    /\ app' = [app EXCEPT !.extractedItems = mockExtractedItems]
    /\ UNCHANGED <<pc, env, store, got, functionVars, list, saved, page, modal>>

\* addGroceryItem(item) at Date.now() = now: id is now.toString(), the extracted
\* item has no id of its own to put in its place
addGroceryItem(groceryItems, name, now) == Append(groceryItems, GroceryItem(Digits(now), name))

\* the list without its k-th item
Without(items, k) == SubSeq(items, 1, k - 1) \o SubSeq(items, k + 1, Len(items))

\* CameraCapture.handleAddItem(item): a click, at least a millisecond after the
\* last one; the save effect follows the render
handleAddItem ==
    /\ app.phase = "ready"
    /\ Len(app.groceryItems) < MaxGroceryItems
    /\ app.clock < MaxClock
    /\ \E k \in 1..Len(app.extractedItems) :
          LET groceryItems == addGroceryItem(app.groceryItems, app.extractedItems[k], app.clock + 1)
          IN /\ app' = [app EXCEPT !.groceryItems = groceryItems,
                                   !.extractedItems = Without(app.extractedItems, k),
                                   !.clock = app.clock + 1]
             /\ saved' = SetItem(groceryItems)
    /\ UNCHANGED <<pc, env, store, got, functionVars, list, page, modal>>

\* extractedItems.forEach(item => onAddItem(item)) from the k-th item on, at is
\* Date.now() of the call before: the clock stands still or moves on between two calls
RECURSIVE AddAllFrom(_, _, _, _, _)
AddAllFrom(groceryItems, extractedItems, k, at, ticks) ==
    IF k > Len(extractedItems) THEN [groceryItems |-> groceryItems, clock |-> at]
    ELSE AddAllFrom(addGroceryItem(groceryItems, extractedItems[k], at + ticks[k]),
                    extractedItems, k + 1, at + ticks[k], ticks)

\* CameraCapture.handleAddAllItems: a click, then the loop
handleAddAllItems ==
    /\ app.phase = "ready"
    /\ app.extractedItems # <<>>
    /\ Len(app.groceryItems) + Len(app.extractedItems) <= MaxGroceryItems
    /\ app.clock + Len(app.extractedItems) <= MaxClock
    /\ \E ticks \in [1..Len(app.extractedItems) -> {0, 1}] :
          LET all == AddAllFrom(app.groceryItems, app.extractedItems, 1, app.clock,
                                [ticks EXCEPT ![1] = 1])
          IN /\ app' = [app EXCEPT !.groceryItems = all.groceryItems,
                                   !.extractedItems = <<>>,
                                   !.clock = all.clock]
             /\ saved' = SetItem(all.groceryItems)
    /\ UNCHANGED <<pc, env, store, got, functionVars, list, page, modal>>

\* prev.map(item => item.id === id ? { ...item, ...updates } : item)
updated(groceryItems, id, name) ==
    [k \in 1..Len(groceryItems) |->
        IF groceryItems[k].id = id THEN [groceryItems[k] EXCEPT !.name = name]
        ELSE groceryItems[k]]

\* updateGroceryItem(item.id, updates) from the edit form of a listed item
updateGroceryItem ==
    /\ app.phase = "ready"
    /\ \E k \in 1..Len(app.groceryItems), name \in UpdatedNames :
          LET groceryItems == updated(app.groceryItems, app.groceryItems[k].id, name)
          IN /\ app' = [app EXCEPT !.groceryItems = groceryItems]
             /\ saved' = SetItem(groceryItems)
    /\ UNCHANGED <<pc, env, store, got, functionVars, list, page, modal>>

\* prev.filter(item => item.id !== id)
deleted(groceryItems, id) == SelectSeq(groceryItems, LAMBDA it : it.id # id)

\* deleteGroceryItem(item.id) from the Delete button of a listed item
deleteGroceryItem ==
    /\ app.phase = "ready"
    /\ \E k \in 1..Len(app.groceryItems) :
          LET groceryItems == deleted(app.groceryItems, app.groceryItems[k].id)
          IN /\ app' = [app EXCEPT !.groceryItems = groceryItems]
             /\ saved' = SetItem(groceryItems)
    /\ UNCHANGED <<pc, env, store, got, functionVars, list, page, modal>>

\* ItemsListPage's first render and its two effects: the load effect queues
\* setItems(parsedItems), the save effect writes the items of this render
mountList ==
    /\ list = Unmounted
    /\ list' = [phase |-> "effects", items |-> <<>>, queued |-> Loaded(saved)]
    /\ saved' = SetItem(<<>>)
    /\ UNCHANGED <<pc, env, store, got, functionVars, app, page, modal>>

\* the render that follows, if the load effect queued a list: items has changed
\* and the save effect writes it
commitList ==
    /\ list.phase = "effects"
    /\ IF list.queued = <<>>
       THEN /\ list' = [list EXCEPT !.phase = "ready"]
            /\ saved' = saved
       ELSE /\ list' = [list EXCEPT !.phase = "ready", !.items = list.queued[1], !.queued = <<>>]
            /\ saved' = SetItem(list.queued[1])
    /\ UNCHANGED <<pc, env, store, got, functionVars, app, page, modal>>

\* ItemsListPage.handleDeleteItem(item.id) from the Delete button of a listed item;
\* items has changed and the save effect writes it
handleDeleteItem ==
    /\ list.phase = "ready"
    /\ \E k \in 1..Len(list.items) :
          LET items == deleted(list.items, list.items[k].id)
          IN /\ list' = [list EXCEPT !.items = items]
             /\ saved' = SetItem(items)
    /\ UNCHANGED <<pc, env, store, got, functionVars, app, page, modal>>

\* the page is left: its state is gone
unmountList ==
    /\ list # Unmounted
    /\ list.phase = "ready"
    /\ list' = Unmounted
    /\ UNCHANGED <<pc, env, store, got, functionVars, app, saved, page, modal>>

NextApp ==
    \/ mountApp \/ commitApp \/ handleFileCapture \/ handleAddItem \/ handleAddAllItems
    \/ updateGroceryItem \/ deleteGroceryItem

\* the two components that keep the list under 'groceryItems', mounting and at work
NextMount ==
    \/ mountApp \/ commitApp \/ updateGroceryItem \/ deleteGroceryItem
    \/ mountList \/ commitList \/ handleDeleteItem \/ unmountList

InitApp ==
    /\ pc = "components"
    /\ env \in [now : Clocks, lenient : {TRUE}, west : {FALSE}]
    /\ saved \in SavedInputs
    /\ app = Unmounted
    /\ list = Unmounted
    /\ store = NoStore
    /\ got = NoResult
    /\ page = Unmounted
    /\ modal = Unmounted
    /\ text = NoText
    /\ lastIndex = [p \in 1..NumPatterns |-> 0]
    /\ ocr = NoRun
    /\ item = NoItem
    /\ validated = Rejected
    /\ revalidated = Rejected
    /\ earlier = NoCalls
    /\ writings = NoParse

SpecApp == InitApp /\ [][NextApp]_vars

SpecMount == InitApp /\ [][NextMount]_vars

---------------------------------------------------------------------------
(* CameraPage                                                              *)

MaxUploads == 2

\* the page after its first render; readers are the FileReaders still reading,
\* runs the processImage calls still waiting for their timer, both by the number
\* of their image; last is the handler that ran last and stale the runs that were
\* waiting when resetCapture was last called (the two are kept for the properties)
FirstRender ==
    [phase |-> "mounted", isCapturing |-> FALSE, capturedImage |-> 0, isProcessing |-> FALSE,
     extractedItems |-> <<>>, showResults |-> FALSE,
     images |-> 0, readers |-> {}, runs |-> {}, last |-> "render", stale |-> {}]

\* which of the three returns CameraPage renders
View(p) ==
    IF p.showResults THEN "results" ELSE IF p.isProcessing THEN "processing" ELSE "main"

\* videoRef.current and canvasRef.current: the two elements are rendered in the
\* main view, and there only while isCapturing
VideoMounted(p) == View(p) = "main" /\ p.isCapturing

\* startCamera once getUserMedia has answered: isCapturing is set only if the
\* video element is there to take the stream
startCamera ==
    /\ page.phase = "mounted"
    /\ View(page) = "main"
    /\ ~page.isCapturing
    /\ page' = [page EXCEPT !.isCapturing = VideoMounted(page), !.last = "startCamera"]
    /\ UNCHANGED <<pc, env, store, got, functionVars, app, list, saved, modal>>

\* processImage(imageData) up to its await: setIsProcessing(true), the run waits
Processing(p, image) == [p EXCEPT !.isProcessing = TRUE, !.runs = p.runs \cup {image}]

\* capturePhoto: returns at once without the video and the canvas; with them the
\* frame is the captured image, the camera stops and processImage starts
capturePhoto ==
    /\ page.phase = "mounted"
    /\ View(page) = "main"
    /\ page.images < MaxUploads
    /\ IF ~VideoMounted(page)
       THEN page' = [page EXCEPT !.last = "capturePhoto"]
       ELSE page' = [Processing(page, page.images + 1) EXCEPT
                        !.images = page.images + 1, !.capturedImage = page.images + 1,
                        !.isCapturing = FALSE, !.last = "capturePhoto"]
    /\ UNCHANGED <<pc, env, store, got, functionVars, app, list, saved, modal>>

\* handleFileUpload: a file is chosen in the main view and a FileReader starts on it
handleFileUpload ==
    /\ page.phase = "mounted"
    /\ View(page) = "main"
    /\ page.images < MaxUploads
    /\ page' = [page EXCEPT !.images = page.images + 1,
                            !.readers = page.readers \cup {page.images + 1},
                            !.last = "handleFileUpload"]
    /\ UNCHANGED <<pc, env, store, got, functionVars, app, list, saved, modal>>

\* reader.onload: setCapturedImage(imageData); processImage(imageData)
readerLoaded ==
    /\ page.phase = "mounted"
    /\ \E image \in page.readers :
          page' = [Processing(page, image) EXCEPT
                      !.capturedImage = image, !.readers = page.readers \ {image},
                      !.last = "onload"]
    /\ UNCHANGED <<pc, env, store, got, functionVars, app, list, saved, modal>>

\* the mock items of one run; Date.now() + Math.random() tells the runs apart
mockItems(image) ==
    <<[id |-> <<image, 0>>, name |-> Chars("Milk")],
      [id |-> <<image, 1>>, name |-> Chars("Bread")],
      [id |-> <<image, 2>>, name |-> Chars("Yogurt")]>>

\* processImage after its await: setExtractedItems(mockExtractedItems),
\* setShowResults(true) and, in finally, setIsProcessing(false)
processImage ==
    /\ page.phase = "mounted"
    /\ \E image \in page.runs :
          page' = [page EXCEPT !.extractedItems = mockItems(image), !.showResults = TRUE,
                               !.isProcessing = FALSE, !.runs = page.runs \ {image},
                               !.last = "processImage"]
    /\ UNCHANGED <<pc, env, store, got, functionVars, app, list, saved, modal>>

\* updateItem(item.id, 'name', value) from the name field of a reviewed item
updateItem ==
    /\ page.phase = "mounted"
    /\ View(page) = "results"
    /\ \E k \in 1..Len(page.extractedItems), name \in UpdatedNames :
          page' = [page EXCEPT !.extractedItems = updated(page.extractedItems,
                                                          page.extractedItems[k].id, name),
                               !.last = "updateItem"]
    /\ UNCHANGED <<pc, env, store, got, functionVars, app, list, saved, modal>>

\* removeItem(item.id) from the remove button of a reviewed item
removeItem ==
    /\ page.phase = "mounted"
    /\ View(page) = "results"
    /\ \E k \in 1..Len(page.extractedItems) :
          page' = [page EXCEPT !.extractedItems = deleted(page.extractedItems,
                                                          page.extractedItems[k].id),
                               !.last = "removeItem"]
    /\ UNCHANGED <<pc, env, store, got, functionVars, app, list, saved, modal>>

\* resetCapture from the results view
resetCapture ==
    /\ page.phase = "mounted"
    /\ View(page) = "results"
    /\ page' = [page EXCEPT !.capturedImage = 0, !.extractedItems = <<>>,
                            !.showResults = FALSE, !.isProcessing = FALSE,
                            !.last = "resetCapture", !.stale = page.runs]
    /\ UNCHANGED <<pc, env, store, got, functionVars, app, list, saved, modal>>

\* saveItems: onAddItems(extractedItems) and navigate('/'), the page is left
saveItems ==
    /\ page.phase = "mounted"
    /\ View(page) = "results"
    /\ page.extractedItems # <<>>
    /\ page' = [phase |-> "left", added |-> page.extractedItems]
    /\ UNCHANGED <<pc, env, store, got, functionVars, app, list, saved, modal>>

NextPage ==
    \/ startCamera \/ capturePhoto \/ handleFileUpload \/ readerLoaded \/ processImage
    \/ updateItem \/ removeItem \/ resetCapture \/ saveItems

InitPage ==
    /\ pc = "components"
    /\ env \in [now : Clocks, lenient : {TRUE}, west : {FALSE}]
    /\ page = FirstRender
    /\ saved = NoStore
    /\ app = Unmounted
    /\ list = Unmounted
    /\ store = NoStore
    /\ got = NoResult
    /\ modal = Unmounted
    /\ text = NoText
    /\ lastIndex = [p \in 1..NumPatterns |-> 0]
    /\ ocr = NoRun
    /\ item = NoItem
    /\ validated = Rejected
    /\ revalidated = Rejected
    /\ earlier = NoCalls
    /\ writings = NoParse

SpecPage == InitPage /\ [][NextPage]_vars

---------------------------------------------------------------------------
(* EditItemModal                                                           *)

NoErrors == [name |-> "", expiryDate |-> ""]

\* the effect on [item] and handleCancel alike: name: item.name || '',
\* expiryDate: item.expiryDate || ''
FormOf(it) == [name |-> it.name, expiryDate |-> it.expiryDate]

\* validateForm: newErrors for the form as it stands; the expiry date is read by
\* new Date and set against today.setHours(0, 0, 0, 0), local midnight
validateForm(formData, selectedDate, h) ==
    [name |-> IF Trim(formData.name) = <<>> THEN "Item name is required" ELSE "",
     expiryDate |-> IF formData.expiryDate = <<>> THEN "Expiry date is required"
                    ELSE IF selectedDate # NoDate /\ selectedDate < 4 * h.now.day
                         THEN "Expiry date cannot be in the past"
                         ELSE ""]

\* the modal as it is opened on an item: calls are the calls the last handler
\* made to onSave and onClose, saved the item given to onSave
Opened(it) ==
    [isOpen |-> TRUE, item |-> it, formData |-> FormOf(it), errors |-> NoErrors,
     last |-> "open", calls |-> <<>>, saved |-> <<>>]

\* what is typed into the name field and picked in the date field, which gives ''
\* or a date as yyyy-MM-dd: yesterday, today, tomorrow
TypedNames == {<<>>, Chars("  "), Chars(" Tea ")}

PickedDates == {<<>>, Chars("2024-12-18"), Chars("2024-12-19"), Chars("2024-12-20")}

\* the items the modal is opened on
ModalItems == {[name |-> n, expiryDate |-> d] : n \in {Chars("Milk")}, d \in PickedDates}

\* handleInputChange(field, value): the field is set and its error cleared
handleInputChange ==
    /\ modal.isOpen
    /\ \/ \E value \in TypedNames :
             modal' = [modal EXCEPT !.formData.name = value, !.errors.name = "",
                                    !.last = "handleInputChange", !.calls = <<>>]
       \/ \E value \in PickedDates :
             modal' = [modal EXCEPT !.formData.expiryDate = value, !.errors.expiryDate = "",
                                    !.last = "handleInputChange", !.calls = <<>>]
    /\ UNCHANGED <<pc, env, store, got, functionVars, app, list, saved, page>>

\* handleSave given the errors validateForm found: with none, onSave of the item
\* with the trimmed name and the date, then onClose, on which the parent closes
SaveOrStay(m, newErrors) ==
    IF newErrors = NoErrors
    THEN [m EXCEPT !.errors = newErrors, !.last = "handleSave",
                   !.calls = <<"onSave", "onClose">>,
                   !.saved = <<[name |-> Trim(m.formData.name),
                                expiryDate |-> m.formData.expiryDate]>>,
                   !.isOpen = FALSE]
    ELSE [m EXCEPT !.errors = newErrors, !.last = "handleSave", !.calls = <<>>]

\* handleSave, from the Save button or the Enter key
handleSave ==
    /\ modal.isOpen
    /\ modal' = SaveOrStay(modal, validateForm(modal.formData,
                                               NativeInstant(modal.formData.expiryDate, env), env))
    /\ UNCHANGED <<pc, env, store, got, functionVars, app, list, saved, page>>

\* handleCancel, from Cancel, the backdrop, the close button or the Escape key
handleCancel ==
    /\ modal.isOpen
    /\ modal' = [modal EXCEPT !.formData = FormOf(modal.item), !.errors = NoErrors,
                              !.last = "handleCancel", !.calls = <<"onClose">>,
                              !.isOpen = FALSE]
    /\ UNCHANGED <<pc, env, store, got, functionVars, app, list, saved, page>>

\* the parent opens the modal again: on the item it had, whose form and errors
\* are still there, or on another item, for which the effect sets them anew
openModal ==
    /\ ~modal.isOpen
    /\ \E it \in ModalItems :
          modal' = IF it = modal.item
                   THEN [modal EXCEPT !.isOpen = TRUE, !.last = "open", !.calls = <<>>]
                   ELSE Opened(it)
    /\ UNCHANGED <<pc, env, store, got, functionVars, app, list, saved, page>>

NextModal == handleInputChange \/ handleSave \/ handleCancel \/ openModal

InitModal ==
    /\ pc = "components"
    /\ env \in [now : Clocks, lenient : {TRUE}, west : BOOLEAN]
    /\ \E it \in ModalItems : modal = Opened(it)
    /\ saved = NoStore
    /\ app = Unmounted
    /\ list = Unmounted
    /\ page = Unmounted
    /\ store = NoStore
    /\ got = NoResult
    /\ text = NoText
    /\ lastIndex = [p \in 1..NumPatterns |-> 0]
    /\ ocr = NoRun
    /\ item = NoItem
    /\ validated = Rejected
    /\ revalidated = Rejected
    /\ earlier = NoCalls
    /\ writings = NoParse

SpecModal == InitModal /\ [][NextModal]_vars

---------------------------------------------------------------------------
(* What the properties speak of                                            *)

\* a substring of t has the shape of one of the four date patterns
HasDateShape(t) == \E p \in 1..NumPatterns, i \in 1..Len(t) : DATE_PATTERNS(p, t, i) > 0

\* a vocabulary term occurs in t, whatever the case of its letters
HasVocabularyTerm(t) == \E k \in 1..Len(COMMON_ITEMS) : Includes(ToLowerCase(t), COMMON_ITEMS[k])

\* a word of the context is a vocabulary term once its non-letters are removed
TermIn(context) ==
    LET contextWords == SplitWhiteSpace(ToLowerCase(context))
    IN \E w \in 1..Len(contextWords) : IsTerm(KeepOnly(contextWords[w], LowerLetter))

HasContextTerm(dates) == \E d \in 1..Len(dates) : TermIn(dates[d].context)

\* the first token of the line keeps three letters or more
NamedLine(line) ==
    LET trimmed == Trim(line)
    IN /\ trimmed # <<>>
       /\ Len(SelectSeq(SplitWhiteSpace(trimmed)[1], LAMBDA c : c \in Letter)) >= 3

HasNamedLine(t) ==
    LET lines == SplitLines(t)
    IN \E l \in 1..Len(lines) : NamedLine(lines[l])

\* s is YYYY-MM-DD and names a day of the calendar
IsCalendarDate(s) ==
    /\ Len(s) = 10
    /\ \A i \in {1, 2, 3, 4, 6, 7, 9, 10} : s[i] \in Digit
    /\ s[5] = "-" /\ s[8] = "-"
    /\ Number(s, 6, 2) \in 1..12
    /\ Number(s, 9, 2) \in 1..DaysInMonth(Number(s, 1, 4), Number(s, 6, 2))

\* the order of the characters a date string is written in
CodeUnit(c) == IF c \in Digit THEN 48 + DigitValue[c] ELSE 45

\* a <= b as strings
StringLE(a, b) ==
    \E n \in 0..Min(Len(a), Len(b)) :
        /\ \A i \in 1..n : a[i] = b[i]
        /\ \/ n = Len(a)
           \/ n < Len(b) /\ CodeUnit(a[n + 1]) < CodeUnit(b[n + 1])

\* a call of processOCRText on a text has ended
Processed == pc = "done" /\ text.type = "string" /\ text.value # <<>>

\* the name is text that is not blank
UsableName(name) == name.type = "string" /\ Trim(name.str) # <<>>

\* the name is absent, or text that is blank
EmptyAfterTrimming(name) ==
    name.type = "undefined" \/ (name.type = "string" /\ Trim(name.str) = <<>>)

---------------------------------------------------------------------------
(* The properties                                                          *)

\* C1: every record of the list processOCRText returns has a confidence between
\* 0 and 1, whichever step made the record and whichever tier gave its name
ConfidenceInUnitRange ==
    pc = "done" =>
        \A k \in 1..Len(ocr.returned) : ocr.returned[k].confidence \in 0..100

\* C2, as amended: a text with no date-shaped substring, no vocabulary term and no
\* line whose first token keeps three letters or more gives the empty list
NothingFromBareText ==
    Processed /\ ~HasNamedLine(text.value) /\ ~HasVocabularyTerm(text.value)
              /\ ~HasDateShape(text.value)
        => ocr.returned = <<>>

BareTextProcessed ==
    /\ Processed /\ ~ocr.threw
    /\ ~HasNamedLine(text.value) /\ ~HasVocabularyTerm(text.value) /\ ~HasDateShape(text.value)
    /\ ocr.returned = <<>>

\* C2, as stated: a text with no date-shaped substring and no vocabulary term gives
\* the empty list, whatever its lines begin with
NothingWithoutDateOrTerm ==
    Processed /\ ~HasDateShape(text.value) /\ ~HasVocabularyTerm(text.value)
        => ocr.returned = <<>>

\* C3: a record validateExtractedItem accepts is returned unchanged, in every field,
\* when it is validated again on the same day, as it is or exported and imported
ValidationIdempotent == pc \in {"again", "parsed"} => revalidated = validated

\* C4: the expiryDate of every record validateExtractedItem returns is a calendar
\* date written YYYY-MM-DD, whatever the expiryDate given
ValidatedExpiryIsCalendarDate ==
    pc = "validated" /\ ~validated.null => IsCalendarDate(validated.expiryDate)

\* C5: every record processOCRText returns has a name that is not empty and an
\* expiryDate that is a calendar date written YYYY-MM-DD
RecordsNamedAndDated ==
    pc = "done" =>
        \A k \in 1..Len(ocr.returned) :
            /\ ocr.returned[k].name # <<>>
            /\ IsCalendarDate(ocr.returned[k].expiryDate)

\* C6: the list processOCRText returns is ascending by expiryDate, the dates
\* compared as strings
ReturnedAscending ==
    pc = "done" =>
        \A k \in 1..(Len(ocr.returned) - 1) :
            StringLE(ocr.returned[k].expiryDate, ocr.returned[k + 1].expiryDate)

\* C7, as amended: for a text in which no vocabulary term matches, extractItemNames
\* returns a candidate exactly when some line's first token keeps three letters or
\* more once its non-letters are removed
FallbackNamesNamedLines ==
    Processed /\ ~ocr.threw /\ ~HasContextTerm(ocr.validDates) /\ ~HasVocabularyTerm(text.value)
        => (ocr.itemNames # <<>> <=> HasNamedLine(text.value))

FallbackNameFound ==
    /\ Processed /\ ~ocr.threw
    /\ ~HasVocabularyTerm(text.value) /\ ~HasContextTerm(ocr.validDates)
    /\ HasNamedLine(text.value)
    /\ ocr.itemNames # <<>>
    /\ \A k \in 1..Len(ocr.itemNames) : ocr.itemNames[k].confidence = 50

\* C7, as stated: extractItemNames returns a candidate for every text that is not
\* empty and in which no vocabulary term matches
FallbackNamesAlways ==
    Processed /\ ~ocr.threw /\ ~HasVocabularyTerm(text.value) /\ ~HasContextTerm(ocr.validDates)
        => ocr.itemNames # <<>>

\* C8: when a date candidate scanned from the text parses, processOCRText returns
\* a list that is not empty, however many names were found
DatesGiveRecords ==
    Processed /\ ~ocr.threw /\ ocr.validDates # <<>> => ocr.returned # <<>>

DateWithoutNameProcessed ==
    /\ Processed /\ ~ocr.threw
    /\ ocr.validDates # <<>> /\ ocr.itemNames = <<>>
    /\ ocr.returned # <<>>

\* C9: processOCRText returns the empty list for an input that is not a string or
\* is empty, and returns the empty list, not the list built so far, when an
\* exception is thrown inside it
ExceptionsGiveEmptyList ==
    pc = "done" =>
        /\ (text.type # "string" \/ text.value = <<>>) => (ocr.returned = <<>> /\ ~ocr.threw)
        /\ ocr.threw => ocr.returned = <<>>

ThrownWithItemsBuilt ==
    /\ pc = "done" /\ ocr.threw
    /\ ocr.processedItems # <<>>
    /\ ocr.returned = <<>>

\* C10, as amended: validateExtractedItem returns null for a record exactly when the
\* record's name is absent, is not a string or is blank; the id is kept or made
\* anew, the expiryDate left empty or set to a date, the addedDate set to today and
\* the confidence kept within 0..1 or set to 0
RejectedWithoutUsableName ==
    pc = "validated" /\ item.type = "object" =>
        /\ validated.null <=> ~UsableName(item.name)
        /\ ~validated.null =>
              /\ validated.id = item.id \/ (~Truthy(item.id) /\ validated.id \in FreshIds)
              /\ validated.expiryDate = <<>> <=> ~Truthy(item.expiryDate)
              /\ Truthy(item.expiryDate) /\ NativeDate(item.expiryDate.str, env) = NoDate
                    => validated.expiryDate = DefaultExpiry(env)
              /\ validated.addedDate = Today(env)
              /\ validated.confidence =
                    IF item.confidence.type = "number" /\ item.confidence.num \in 0..100
                    THEN item.confidence.num ELSE 0

DefectsRepaired ==
    /\ pc = "validated" /\ item.type = "object" /\ ~validated.null
    /\ ~Truthy(item.id)
    /\ Truthy(item.expiryDate) /\ validated.expiryDate = DefaultExpiry(env)
    /\ item.addedDate = Undefined
    /\ item.confidence.type # "number" /\ validated.confidence = 0

\* C10, as stated: validateExtractedItem returns null for a record exactly when the
\* record's name is empty after trimming
RejectedExactlyEmptyName ==
    pc = "validated" /\ item.type = "object" =>
        (validated.null <=> EmptyAfterTrimming(item.name))

\* the call found one name, by the whole-text scan (0.8), and no date that parses
OneVocabularyNameNoDate ==
    /\ Processed /\ ~ocr.threw
    /\ ocr.validDates = <<>>
    /\ Len(ocr.itemNames) = 1 /\ ocr.itemNames[1].confidence = 80

\* C11, as amended: for a text with exactly one name candidate, found by the
\* whole-text vocabulary scan, and no date, processOCRText returns exactly one
\* record, of that name, with expiryDate today + 7 days and confidence 0.4, half
\* the 0.8 of a whole-text match
LoneNameHalved ==
    OneVocabularyNameNoDate =>
        /\ Len(ocr.returned) = 1
        /\ ocr.returned[1].name = ocr.itemNames[1].name
        /\ ocr.returned[1].expiryDate = FormatDate(AddDays(env.now.day, DEFAULT_EXPIRY_DAYS))
        /\ ocr.returned[1].confidence = 40

LoneNameProcessed ==
    /\ OneVocabularyNameNoDate
    /\ ocr.extractedDates = <<>>
    /\ Len(ocr.returned) = 1 /\ ocr.returned[1].confidence = 40

\* C11, as stated: that record's confidence is 0.25
LoneNameQuartered ==
    OneVocabularyNameNoDate =>
        /\ Len(ocr.returned) = 1
        /\ ocr.returned[1].expiryDate = FormatDate(AddDays(env.now.day, DEFAULT_EXPIRY_DAYS))
        /\ ocr.returned[1].confidence = 25

\* the call found no name and at least one date that parses
DatesWithoutNames ==
    /\ Processed /\ ~ocr.threw
    /\ ocr.itemNames = <<>> /\ ocr.validDates # <<>>

\* C12: when no name candidate is found and n >= 1 date candidates parse,
\* processOCRText returns exactly min(n, 3) records, made from the first min(n, 3)
\* dates in ranked order, named 'Item 1', 'Item 2', ... in that order, each with
\* confidence 0.3
GenericFromRankedDates ==
    DatesWithoutNames =>
        /\ Len(ocr.processedItems) = Min(Len(ocr.validDates), 3)
        /\ \A k \in 1..Len(ocr.processedItems) :
              /\ ocr.processedItems[k].name = Chars("Item ") \o <<DigitChar[k + 1]>>
              /\ ocr.processedItems[k].expiryDate = FormatDate(ocr.validDates[k].date)
              /\ ocr.processedItems[k].confidence = 30
        /\ Len(ocr.returned) = Len(ocr.processedItems)
        /\ \A k \in 1..Len(ocr.processedItems) :
              \E j \in 1..Len(ocr.returned) : ocr.returned[j] = ocr.processedItems[k]

\* three ISO dates on three lines and no name: more than three candidates parse,
\* three records are returned
ThreeOfManyDates ==
    /\ DatesWithoutNames
    /\ Len(SplitLines(text.value)) >= 3
    /\ Len(ocr.validDates) > 3
    /\ Len(ocr.returned) = 3
    /\ \A j \in 1..3 : ocr.returned[j].confidence = 30

\* the call found the one name 'Milk' (0.8) and one date, whose context holds
\* 'milk' and 'exp'
MilkWithExpiryDate ==
    /\ Processed /\ ~ocr.threw
    /\ Len(ocr.itemNames) = 1 /\ Len(ocr.validDates) = 1
    /\ ocr.itemNames[1].name = Chars("Milk") /\ ocr.itemNames[1].confidence = 80
    /\ Includes(ToLowerCase(ocr.validDates[1].context), Chars("milk"))
    /\ Includes(ToLowerCase(ocr.validDates[1].context), Chars("exp"))

\* C13: a record made in the first pass carries the name of its name candidate,
\* the date matched to it, and the name's confidence plus 0.2 when that date is
\* likely an expiry date, plus nothing otherwise; the single name 'Milk' with one
\* date whose context holds 'milk' and 'exp' gives exactly one record, at 1.0
FirstPassConfidence ==
    Processed /\ ~ocr.threw =>
        /\ \A k \in 1..Len(ocr.processedItems) :
              ocr.processedItems[k].from.step = "first" =>
                  \E i \in 1..Len(ocr.itemNames) :
                      /\ ocr.processedItems[k].name = ocr.itemNames[i].name
                      /\ ocr.processedItems[k].expiryDate =
                            FormatDate(ocr.validDates[ocr.processedItems[k].from.date].date)
                      /\ ocr.processedItems[k].confidence =
                            ocr.itemNames[i].confidence
                            + (IF isLikelyExpiryDate(ocr.validDates[ocr.processedItems[k].from.date].context)
                               THEN 20 ELSE 0)
        /\ MilkWithExpiryDate =>
              /\ Len(ocr.returned) = 1
              /\ ocr.returned[1].name = Chars("Milk")
              /\ ocr.returned[1].expiryDate = FormatDate(ocr.validDates[1].date)
              /\ ocr.returned[1].confidence = 100

MilkMatchedAtFullConfidence ==
    /\ MilkWithExpiryDate
    /\ Len(ocr.returned) = 1
    /\ ocr.returned[1].from.step = "first"
    /\ ocr.returned[1].confidence = 100

\* the candidate of extractedDates is among validDates
Ranked(candidate) ==
    \E d \in 1..Len(ocr.validDates) :
        ocr.validDates[d].index = candidate.index /\ ocr.validDates[d].text = candidate.text

\* C14: a date candidate that parseDate resolves neither by a format nor by the
\* native fallback is dropped before ranking: it is not among the ranked dates, so
\* it is matched to no name in the first pass, takes no position in the second and
\* gives no generic item; every record's date is a ranked date or the default
UnparsedDropped ==
    Processed /\ ~ocr.threw =>
        /\ \A d \in 1..Len(ocr.validDates) : ocr.validDates[d].date # NoDate
        /\ \A e \in 1..Len(ocr.extractedDates) :
              parseDate(ocr.extractedDates[e].text, env) = NoDate => ~Ranked(ocr.extractedDates[e])
        /\ Len(ocr.validDates) <= Len(ocr.extractedDates)
        /\ \A k \in 1..Len(ocr.processedItems) :
              IF ocr.processedItems[k].from.step = "default"
              THEN /\ ocr.processedItems[k].from.date = 0
                   /\ ocr.processedItems[k].expiryDate = DefaultExpiry(env)
              ELSE /\ ocr.processedItems[k].from.date \in 1..Len(ocr.validDates)
                   /\ ocr.processedItems[k].expiryDate =
                         FormatDate(ocr.validDates[ocr.processedItems[k].from.date].date)
        /\ ocr.validDates = <<>> /\ ocr.itemNames = <<>> => ocr.returned = <<>>

\* a candidate was dropped, and the name found beside it was given the default
\* expiry in the second pass
DroppedCandidateLeftNameUndated ==
    /\ Processed /\ ~ocr.threw
    /\ ocr.extractedDates # <<>> /\ ocr.validDates = <<>>
    /\ ocr.returned # <<>>
    /\ \A k \in 1..Len(ocr.returned) : ocr.returned[k].from.step = "default"

\* C15: calls are independent and stateless: the candidates extractDates returns
\* for a text, and the records processOCRText returns for it, are those of a scan
\* from the start of the text whatever calls were made before, and after every
\* call the lastIndex of each module-level date pattern is back at 0
CallsIndependent ==
    /\ \A p \in 1..NumPatterns : lastIndex[p] = 0
    /\ Processed /\ ~ocr.threw =>
          /\ ocr.extractedDates = extractDates(text.value, [p \in 1..NumPatterns |-> 0])
          /\ ocr.returned \in
                SortOutcomes(Pipeline(text.value, env, [p \in 1..NumPatterns |-> 0]).processedItems, env)

\* a call that found dates has returned after an earlier call that found dates
ScannedAgain ==
    /\ Processed /\ ~ocr.threw
    /\ earlier.calls >= 1 /\ earlier.matches >= 1
    /\ ocr.extractedDates # <<>>
    /\ ocr.returned # <<>>

\* C16: parseDate returns the same calendar date for the slash-separated and the
\* dash-separated writing of the same month/day/year, for every valid date of
\* that shape
SeparatorsAgree ==
    pc = "resolved" => writings.slash # NoDate /\ writings.dash = writings.slash

\* C17: the confidence of the record validateExtractedItem returns is the input's
\* confidence when that is a number within 0..1, and 0 otherwise (missing, not a
\* number, negative, above 1); it is always within 0..1
ConfidenceKeptOrZero ==
    pc = "validated" /\ item.type = "object" /\ ~validated.null =>
        /\ validated.confidence \in 0..100
        /\ validated.confidence =
              IF item.confidence.type = "number"
                 /\ item.confidence.num >= 0 /\ item.confidence.num <= 100
              THEN item.confidence.num ELSE 0

\* a confidence of exactly 1 was kept
FullConfidenceKept ==
    /\ pc = "validated" /\ item.type = "object" /\ ~validated.null
    /\ item.confidence = NumberOf(100)
    /\ validated.confidence = 100

\* C18: the second pass works on exactly the name candidates that got no date in
\* the first pass, in extraction order, and each name candidate gives exactly one
\* record: none is dropped and none appears twice
EveryNameOneRecord ==
    Processed /\ ~ocr.threw /\ ocr.itemNames # <<>> =>
        /\ Len(ocr.returned) = Len(ocr.itemNames)
        /\ \A i \in 1..Len(ocr.itemNames) :
              Cardinality({k \in 1..Len(ocr.returned) : ocr.returned[k].name = ocr.itemNames[i].name})
                = Cardinality({j \in 1..Len(ocr.itemNames) : ocr.itemNames[j].name = ocr.itemNames[i].name})

\* the context holds the name, or its first four characters, whatever the case
NamedIn(context, name) ==
    \/ Includes(ToLowerCase(context), ToLowerCase(name))
    \/ Includes(ToLowerCase(context), ToLowerCase(SubSeq(name, 1, Min(4, Len(name)))))

\* the dates the first pass had used before it pushed the k-th record
UsedBefore(k) ==
    {ocr.processedItems[j].from.date : j \in {i \in 1..(k - 1) : ocr.processedItems[i].from.step = "first"}}

\* C19: in the first pass the date chosen for a name is the first date in ranked
\* order that is not yet used and whose context holds the name or its first four
\* characters; the chosen date is then used, and over the whole call no date
\* candidate is the source of more than one record
FirstUnusedDateOfContext ==
    Processed /\ ~ocr.threw =>
        /\ \A k \in 1..Len(ocr.processedItems) :
              ocr.processedItems[k].from.step = "first" =>
                  /\ ocr.processedItems[k].from.date \in (1..Len(ocr.validDates)) \ UsedBefore(k)
                  /\ NamedIn(ocr.validDates[ocr.processedItems[k].from.date].context,
                             ocr.processedItems[k].name)
                  /\ \A e \in 1..(ocr.processedItems[k].from.date - 1) :
                        \/ e \in UsedBefore(k)
                        \/ ~NamedIn(ocr.validDates[e].context, ocr.processedItems[k].name)
        /\ (\A k \in 1..Len(ocr.processedItems) : ocr.processedItems[k].from.step # "first") =>
              \A i \in 1..Len(ocr.itemNames), d \in 1..Len(ocr.validDates) :
                  ~NamedIn(ocr.validDates[d].context, ocr.itemNames[i].name)
        /\ \A j, k \in 1..Len(ocr.returned) :
              j # k /\ ocr.returned[j].from.date # 0 => ocr.returned[j].from.date # ocr.returned[k].from.date

\* a name took the second date in ranked order, the first, whose context holds the
\* name too, being used by the name before it
UsedDateSkipped ==
    /\ Processed /\ ~ocr.threw
    /\ \E k \in 2..Len(ocr.processedItems) :
          /\ ocr.processedItems[k].from.step = "first"
          /\ \E e \in UsedBefore(k) :
                /\ e < ocr.processedItems[k].from.date
                /\ NamedIn(ocr.validDates[e].context, ocr.processedItems[k].name)
    /\ Len(ocr.returned) = Len(ocr.processedItems)

\* two date candidates are matches of one occurrence: their places in the text overlap
SameOccurrence(a, b) ==
    a.index < b.index + Len(b.text) /\ b.index < a.index + Len(a.text)

\* C20: one date occurrence in the text gives its expiry to at most one record,
\* also when more than one date shape matches it
OneRecordPerOccurrence ==
    Processed /\ ~ocr.threw =>
        \A j, k \in 1..Len(ocr.returned) :
            j # k /\ ocr.returned[j].from.date # 0 /\ ocr.returned[k].from.date # 0 =>
                ~SameOccurrence(ocr.validDates[ocr.returned[j].from.date],
                                ocr.validDates[ocr.returned[k].from.date])

\* C21: after the ranking no date that is not likely an expiry date stands before
\* one that is, and among dates of the same likelihood the distance from the
\* processing date does not decrease along the list
RankedByLikelihoodThenDistance ==
    Processed /\ ~ocr.threw =>
        \A j, k \in 1..Len(ocr.validDates) :
            j < k =>
                /\ ocr.validDates[k].isExpiry => ocr.validDates[j].isExpiry
                /\ ocr.validDates[j].isExpiry = ocr.validDates[k].isExpiry =>
                      Distance(ocr.validDates[j].date, env) <= Distance(ocr.validDates[k].date, env)

\* a date likely an expiry date was ranked before a date that is nearer and not
\* likely one
LikelyDateRankedBeforeNearer ==
    /\ Processed /\ ~ocr.threw
    /\ \E j, k \in 1..Len(ocr.validDates) :
          /\ j < k
          /\ ocr.validDates[j].isExpiry /\ ~ocr.validDates[k].isExpiry
          /\ Distance(ocr.validDates[k].date, env) < Distance(ocr.validDates[j].date, env)

\* the records the second pass pushed, in the order pushed
SecondPassRecords ==
    SelectSeq(ocr.processedItems, LAMBDA r : r.from.step \in {"second", "default"})

\* the dates the first pass left unused, in ranked order
LeftoverDates ==
    SelectSeq([d \in 1..Len(ocr.validDates) |-> d],
              LAMBDA d : \A k \in 1..Len(ocr.processedItems) :
                            ocr.processedItems[k].from.step = "first"
                                => ocr.processedItems[k].from.date # d)

\* C22: in the second pass the k-th name takes the k-th leftover date and keeps its
\* confidence; a name beyond the leftover dates gets the processing date + 7 days
\* and half its confidence
SecondPassPairsOrDefaults ==
    Processed /\ ~ocr.threw =>
        \A k \in 1..Len(SecondPassRecords) :
            IF k <= Len(LeftoverDates)
            THEN /\ SecondPassRecords[k].from = [step |-> "second", date |-> LeftoverDates[k]]
                 /\ SecondPassRecords[k].expiryDate =
                       FormatDate(ocr.validDates[LeftoverDates[k]].date)
                 /\ \E i \in 1..Len(ocr.itemNames) :
                       /\ ocr.itemNames[i].name = SecondPassRecords[k].name
                       /\ ocr.itemNames[i].confidence = SecondPassRecords[k].confidence
            ELSE /\ SecondPassRecords[k].from.step = "default"
                 /\ SecondPassRecords[k].expiryDate =
                       FormatDate(AddDays(env.now.day, DEFAULT_EXPIRY_DAYS))
                 /\ \E i \in 1..Len(ocr.itemNames) :
                       /\ ocr.itemNames[i].name = SecondPassRecords[k].name
                       /\ ocr.itemNames[i].confidence = 2 * SecondPassRecords[k].confidence

\* the second pass paired a name with a leftover date, at the name's confidence
PairedWithLeftoverDate ==
    /\ Processed /\ ~ocr.threw
    /\ LeftoverDates # <<>>
    /\ \E k \in 1..Len(ocr.returned) :
          /\ ocr.returned[k].from.step = "second"
          /\ \E i \in 1..Len(ocr.itemNames) :
                /\ ocr.itemNames[i].name = ocr.returned[k].name
                /\ ocr.itemNames[i].confidence = ocr.returned[k].confidence

\* C23: the name of every record validateExtractedItem returns is at most 50
\* characters long and neither begins nor ends with white space
NameShortAndTrimmed ==
    pc = "validated" /\ item.type = "object" /\ ~validated.null =>
        /\ Len(validated.name) <= 50
        /\ validated.name[1] \notin WhiteSpace
        /\ validated.name[Len(validated.name)] \notin WhiteSpace

\* the stored expiryDate names an instant
HasInstant(it) == it.expiryDate.type = "string" /\ IsoDateOnly(it.expiryDate.str) # NoDate

\* the stored expiryDate less the clock, in quarters of a day: the day difference
\* is below 0 from -4 down, and within 0..3 above -4 and up to 12
QuartersLeft(it) ==
    4 * IsoDateOnly(it.expiryDate.str) - (IF env.west THEN 1 ELSE 0) - (4 * env.now.day + env.now.q)

\* C24: every item itemStorage.getAll returns carries isExpired and isExpiringSoon
\* computed at the reading from the clock and the stored expiryDate, whatever
\* flags were stored: isExpired exactly when the day difference is below 0,
\* isExpiringSoon exactly when it is within 0..3, never both, neither when the
\* expiryDate is missing; getExpired and getExpiringSoon return no item in common
FlagsRecomputedAtRead ==
    pc = "read" =>
        /\ got.op = "getAll" =>
              /\ Len(got.items) = Len(store.items)
              /\ \A k \in 1..Len(got.items) :
                    /\ got.items[k].id = store.items[k].id
                    /\ got.items[k].expiryDate = store.items[k].expiryDate
                    /\ got.items[k].isExpired <=>
                          (HasInstant(store.items[k]) /\ QuartersLeft(store.items[k]) <= -4)
                    /\ got.items[k].isExpiringSoon <=>
                          (HasInstant(store.items[k]) /\ QuartersLeft(store.items[k]) > -4
                             /\ QuartersLeft(store.items[k]) <= 12)
                    /\ ~(got.items[k].isExpired /\ got.items[k].isExpiringSoon)
                    /\ store.items[k].expiryDate = Absent =>
                          ~got.items[k].isExpired /\ ~got.items[k].isExpiringSoon
        /\ got.op = "flagged" =>
              \A j \in 1..Len(got.expired), k \in 1..Len(got.soon) : got.expired[j] # got.soon[k]

\* an item stored as expired and expiring soon was read, on its day of expiry, as
\* expiring soon and not expired
StaleFlagsReplaced ==
    /\ pc = "read" /\ got.op = "getAll"
    /\ \E k \in 1..Len(got.items) :
          /\ store.items[k].isExpired /\ store.items[k].isExpiringSoon
          /\ store.items[k].expiryDate = StringOf(Chars("2024-12-19"))
          /\ ~got.items[k].isExpired /\ got.items[k].isExpiringSoon

\* C27: itemStorage.save returns the record as it was persisted: afterwards
\* getById of the returned id gives a record with the id, name and expiryDate of
\* the returned one, and the store holds exactly one item with that id
SavedIsPersisted ==
    pc = "fetched" =>
        /\ Len(got.found) = 1
        /\ Get(got.found[1].id) = Get(got.returned.id)
        /\ Get(got.found[1].name) = Get(got.returned.name)
        /\ Get(got.found[1].expiryDate) = Get(got.returned.expiryDate)
        /\ Cardinality({k \in 1..Len(store.items) :
                          Get(store.items[k].id) = Get(got.returned.id)}) = 1

\* C28: a text with n >= 1 name candidates gives exactly n records, however many
\* dates were found and however many names the first pass matched; dates beyond
\* the names give no record
AsManyRecordsAsNames ==
    Processed /\ ~ocr.threw /\ Len(ocr.itemNames) >= 1 =>
        Len(ocr.returned) = Len(ocr.itemNames)

\* a call with names and more dates than names has returned one record per name
MoreDatesThanNames ==
    /\ Processed /\ ~ocr.threw
    /\ Len(ocr.itemNames) >= 1
    /\ Len(ocr.validDates) > Len(ocr.itemNames)
    /\ Len(ocr.returned) = Len(ocr.itemNames)
    /\ \E k \in 1..Len(ocr.processedItems) : ocr.processedItems[k].from.step = "first"

\* C25: whatever addGroceryItem, updateGroceryItem and deleteGroceryItem calls App
\* has made, 'Add All' among them, the items of groceryItems have pairwise
\* distinct ids
DistinctIds ==
    app # Unmounted =>
        \A i, j \in 1..Len(app.groceryItems) :
            i # j => app.groceryItems[i].id # app.groceryItems[j].id

\* C29: a component that mounts while 'groceryItems' holds a valid, non-empty
\* list does not write over it before that list is in its state: the step that
\* mounts App or ItemsListPage leaves the saved list as it was
MountKeepsSavedList ==
    [][(/\ saved.kind = "json" /\ saved.items # <<>>
        /\ \/ app = Unmounted /\ app' # Unmounted
           \/ list = Unmounted /\ list' # Unmounted)
       => saved' = saved]_vars

\* C26: once CameraPage shows the results, extractedItems changes only through
\* updateItem, removeItem or resetCapture, never by a processImage run that ends
\* then; and a run that was waiting when resetCapture was called does not set
\* showResults back to true
ReviewedItemsKept ==
    [][page.phase = "mounted" /\ page'.phase = "mounted" =>
          /\ (page.showResults /\ page'.extractedItems # page.extractedItems
                => page'.last \in {"updateItem", "removeItem", "resetCapture"})
          /\ (~page.showResults /\ page'.showResults
                => page.runs \ page'.runs \subseteq page.runs \ page.stale)]_vars

\* C30: EditItemModal calls onSave only from handleSave, and does so when the
\* trimmed name is not empty and the expiry date is set and not before today,
\* today's local date being accepted; when validation fails handleSave calls
\* neither onSave nor onClose; handleCancel calls onClose alone and leaves the
\* form at the item's name and expiryDate with no errors
SavesOnlyValidForms ==
    /\ \A k \in 1..Len(modal.calls) : modal.calls[k] = "onSave" => modal.last = "handleSave"
    /\ modal.last = "handleSave" =>
          IF /\ Trim(modal.formData.name) # <<>>
             /\ modal.formData.expiryDate # <<>>
             /\ IsoDateOnly(modal.formData.expiryDate) >= env.now.day
          THEN modal.calls = <<"onSave", "onClose">>
          ELSE modal.calls = <<>>
    /\ modal.last = "handleCancel" =>
          /\ modal.calls = <<"onClose">>
          /\ modal.formData = FormOf(modal.item)
          /\ modal.errors = NoErrors

====
